---------------------------- MODULE Spec2Model ----------------------------
\* A model of bot.py (amirka335/tg_group_bot): the message archive
\* (save_message_to_db, get_chat_history_from_db), the completion client
\* (call_cerebras_api), the overflow handling of send_long_message and the two
\* command handlers handle_history_command and handle_qwen_command, run as
\* asyncio tasks that other handlers interleave with at every await.
EXTENDS Integers, Sequences, FiniteSets, TLC

\* ---------------------------------------------------------------------------
\* Bounds of the model
\* ---------------------------------------------------------------------------
\* how many text messages of users are delivered while the command runs
MaxUserMsgs == 1

\* ---------------------------------------------------------------------------
\* Program constants
\* ---------------------------------------------------------------------------
DEFAULT_MESSAGE_COUNT == 100
TELEGRAM_MESSAGE_LIMIT == 4096

\* ---------------------------------------------------------------------------
\* Text. A Python str is modelled as the sequence of its Unicode code points,
\* so that substring search, split and strip work on the characters the code
\* sees. Every literal below is the literal of the quoted source line.
\* ---------------------------------------------------------------------------

\* thinking_tags (line 196): "</think>", "</reasoning>", "<|im_end|>"
thinking_tags ==
    << <<60, 47, 116, 104, 105, 110, 107, 62>>,
       <<60, 47, 114, 101, 97, 115, 111, 110, 105, 110, 103, 62>>,
       <<60, 124, 105, 109, 95, 101, 110, 100, 124, 62>> >>

\* the fixed apology string of call_cerebras_api (line 209): "Извините, произошла ошибка при обработке вашего запроса сервисом ИИ."
Apology ==
    <<1048, 1079, 1074, 1080, 1085, 1080, 1090, 1077, 44, 32, 1087, 1088, 1086, 1080, 1079,
      1086, 1096, 1083, 1072, 32, 1086, 1096, 1080, 1073, 1082, 1072, 32, 1087, 1088, 1080, 32,
      1086, 1073, 1088, 1072, 1073, 1086, 1090, 1082, 1077, 32, 1074, 1072, 1096, 1077, 1075,
      1086, 32, 1079, 1072, 1087, 1088, 1086, 1089, 1072, 32, 1089, 1077, 1088, 1074, 1080,
      1089, 1086, 1084, 32, 1048, 1048, 46>>

\* The markers of the if/elif chain of handle_qwen_command (lines 421-485), in
\* the order of the chain.
AnswerMarkers ==
    << <<1042, 1099, 1074, 1086, 1076, 58>>,   \* 1: line 421 "Вывод:"
       <<1074, 1099, 1074, 1086, 1076, 58>>,   \* 2: line 423 "вывод:"
       <<1054, 1090, 1074, 1077, 1090, 58>>,   \* 3: line 425 "Ответ:"
       <<1086, 1090, 1074, 1077, 1090, 58>>,   \* 4: line 427 "ответ:"
       <<35, 35, 35, 32, 1054, 1090, 1074, 1077, 1090>>,   \* 5: line 429 "### Ответ"
       <<35, 35, 35, 32, 1054, 1090, 1074, 1077, 1090, 58>>,   \* 6: line 431 "### Ответ:"
       <<35, 35, 35, 32, 1042, 1099, 1074, 1086, 1076>>,   \* 7: line 433 "### Вывод"
       <<35, 35, 35, 32, 1042, 1099, 1074, 1086, 1076, 58>>,   \* 8: line 435 "### Вывод:"
       \* 9: line 437 "### Финальный Ответ"
       <<35, 35, 35, 32, 1060, 1080, 1085, 1072, 1083, 1100, 1085, 1099, 1081, 32, 1054, 1090,
         1074, 1077, 1090>>,
       \* 10: line 439 "### Финальный Ответ:"
       <<35, 35, 35, 32, 1060, 1080, 1085, 1072, 1083, 1100, 1085, 1099, 1081, 32, 1054, 1090,
         1074, 1077, 1090, 58>>,
       \* 11: line 441 "### Финальный Вывод"
       <<35, 35, 35, 32, 1060, 1080, 1085, 1072, 1083, 1100, 1085, 1099, 1081, 32, 1042, 1099,
         1074, 1086, 1076>>,
       \* 12: line 443 "### Финальный Вывод:"
       <<35, 35, 35, 32, 1060, 1080, 1085, 1072, 1083, 1100, 1085, 1099, 1081, 32, 1042, 1099,
         1074, 1086, 1076, 58>>,
       \* 13: line 445 "### Final Answer"
       <<35, 35, 35, 32, 70, 105, 110, 97, 108, 32, 65, 110, 115, 119, 101, 114>>,
       \* 14: line 447 "### Final Answer:"
       <<35, 35, 35, 32, 70, 105, 110, 97, 108, 32, 65, 110, 115, 119, 101, 114, 58>>,
       \* 15: line 449 "### Final Response"
       <<35, 35, 35, 32, 70, 105, 110, 97, 108, 32, 82, 101, 115, 112, 111, 110, 115, 101>>,
       \* 16: line 451 "### Final Response:"
       <<35, 35, 35, 32, 70, 105, 110, 97, 108, 32, 82, 101, 115, 112, 111, 110, 115, 101, 58>>,
       <<70, 105, 110, 97, 108, 32, 65, 110, 115, 119, 101, 114, 58>>,   \* 17: line 453 "Final Answer:"
       \* 18: line 455 "Final Response:"
       <<70, 105, 110, 97, 108, 32, 82, 101, 115, 112, 111, 110, 115, 101, 58>>,
       \* 19: line 457 "Итоговый ответ:"
       <<1048, 1090, 1086, 1075, 1086, 1074, 1099, 1081, 32, 1086, 1090, 1074, 1077, 1090, 58>>,
       \* 20: line 459 "Итоговый ответ"
       <<1048, 1090, 1086, 1075, 1086, 1074, 1099, 1081, 32, 1086, 1090, 1074, 1077, 1090>>,
       <<1048, 1090, 1086, 1075, 58>>,   \* 21: line 461 "Итог:"
       <<1080, 1090, 1086, 1075, 58>>,   \* 22: line 463 "итог:"
       <<1056, 1077, 1096, 1077, 1085, 1080, 1077, 58>>,   \* 23: line 465 "Решение:"
       <<1088, 1077, 1096, 1077, 1085, 1080, 1077, 58>>,   \* 24: line 467 "решение:"
       <<1056, 1077, 1079, 1091, 1083, 1100, 1090, 1072, 1090, 58>>,   \* 25: line 469 "Результат:"
       <<1088, 1077, 1079, 1091, 1083, 1100, 1090, 1072, 1090, 58>>,   \* 26: line 471 "результат:"
       <<1047, 1072, 1082, 1083, 1102, 1095, 1077, 1085, 1080, 1077, 58>>,   \* 27: line 473 "Заключение:"
       <<1079, 1072, 1082, 1083, 1102, 1095, 1077, 1085, 1080, 1077, 58>>,   \* 28: line 475 "заключение:"
       <<83, 117, 109, 109, 97, 114, 121, 58>>,   \* 29: line 477 "Summary:"
       <<83, 117, 109, 109, 97, 114, 121>>,   \* 30: line 479 "Summary"
       \* 31: line 481 "Ответ на вопрос:"
       <<1054, 1090, 1074, 1077, 1090, 32, 1085, 1072, 32, 1074, 1086, 1087, 1088, 1086, 1089,
         58>>,
       \* 32: line 483 "Ответ на вопрос"
       <<1054, 1090, 1074, 1077, 1090, 32, 1085, 1072, 32, 1074, 1086, 1087, 1088, 1086, 1089>>,
       <<35, 35, 35>> >>   \* 33: line 485 "###"

\* /history working acknowledgment, before the count (line 318): "Анализирую последние "
AckHistoryPre ==
    <<1040, 1085, 1072, 1083, 1080, 1079, 1080, 1088, 1091, 1102, 32, 1087, 1086, 1089, 1083,
      1077, 1076, 1085, 1080, 1077, 32>>

\* /history working acknowledgment, after the count (line 318): " сообщений из сохраненной истории... Это может занять некоторое время."
AckHistoryPost ==
    <<32, 1089, 1086, 1086, 1073, 1097, 1077, 1085, 1080, 1081, 32, 1080, 1079, 32, 1089, 1086,
      1093, 1088, 1072, 1085, 1077, 1085, 1085, 1086, 1081, 32, 1080, 1089, 1090, 1086, 1088,
      1080, 1080, 46, 46, 46, 32, 1069, 1090, 1086, 32, 1084, 1086, 1078, 1077, 1090, 32, 1079,
      1072, 1085, 1103, 1090, 1100, 32, 1085, 1077, 1082, 1086, 1090, 1086, 1088, 1086, 1077,
      32, 1074, 1088, 1077, 1084, 1103, 46>>

\* /history "no history" notice (line 328): "В моей базе данных еще нет сохраненных сообщений из этого чата. Пожалуйста, подождите, пока я их соберу."
NoHistoryHistory ==
    <<1042, 32, 1084, 1086, 1077, 1081, 32, 1073, 1072, 1079, 1077, 32, 1076, 1072, 1085, 1085,
      1099, 1093, 32, 1077, 1097, 1077, 32, 1085, 1077, 1090, 32, 1089, 1086, 1093, 1088, 1072,
      1085, 1077, 1085, 1085, 1099, 1093, 32, 1089, 1086, 1086, 1073, 1097, 1077, 1085, 1080,
      1081, 32, 1080, 1079, 32, 1101, 1090, 1086, 1075, 1086, 32, 1095, 1072, 1090, 1072, 46,
      32, 1055, 1086, 1078, 1072, 1083, 1091, 1081, 1089, 1090, 1072, 44, 32, 1087, 1086, 1076,
      1086, 1078, 1076, 1080, 1090, 1077, 44, 32, 1087, 1086, 1082, 1072, 32, 1103, 32, 1080,
      1093, 32, 1089, 1086, 1073, 1077, 1088, 1091, 46>>

\* ValueError notice, before the count (line 357): "Неверное число. Используется значение по умолчанию: "
ValueErrorPre ==
    <<1053, 1077, 1074, 1077, 1088, 1085, 1086, 1077, 32, 1095, 1080, 1089, 1083, 1086, 46, 32,
      1048, 1089, 1087, 1086, 1083, 1100, 1079, 1091, 1077, 1090, 1089, 1103, 32, 1079, 1085,
      1072, 1095, 1077, 1085, 1080, 1077, 32, 1087, 1086, 32, 1091, 1084, 1086, 1083, 1095,
      1072, 1085, 1080, 1102, 58, 32>>

\* /history ValueError notice, after the count (line 357): " сообщений."
ValueErrorHistoryPost ==
    <<32, 1089, 1086, 1086, 1073, 1097, 1077, 1085, 1080, 1081, 46>>

\* /history error notice (line 366): "Произошла ошибка при попытке обработать команду /history."
ErrorHistory ==
    <<1055, 1088, 1086, 1080, 1079, 1086, 1096, 1083, 1072, 32, 1086, 1096, 1080, 1073, 1082,
      1072, 32, 1087, 1088, 1080, 32, 1087, 1086, 1087, 1099, 1090, 1082, 1077, 32, 1086, 1073,
      1088, 1072, 1073, 1086, 1090, 1072, 1090, 1100, 32, 1082, 1086, 1084, 1072, 1085, 1076,
      1091, 32, 47, 104, 105, 115, 116, 111, 114, 121, 46>>

\* /qwen usage hint, no argument (line 379): "Пожалуйста, задайте вопрос после команды /qwen. Например: /qwen Что было решено по проекту?"
UsageQwen1 ==
    <<1055, 1086, 1078, 1072, 1083, 1091, 1081, 1089, 1090, 1072, 44, 32, 1079, 1072, 1076,
      1072, 1081, 1090, 1077, 32, 1074, 1086, 1087, 1088, 1086, 1089, 32, 1087, 1086, 1089,
      1083, 1077, 32, 1082, 1086, 1084, 1072, 1085, 1076, 1099, 32, 47, 113, 119, 101, 110, 46,
      32, 1053, 1072, 1087, 1088, 1080, 1084, 1077, 1088, 58, 32, 47, 113, 119, 101, 110, 32,
      1063, 1090, 1086, 32, 1073, 1099, 1083, 1086, 32, 1088, 1077, 1096, 1077, 1085, 1086, 32,
      1087, 1086, 32, 1087, 1088, 1086, 1077, 1082, 1090, 1091, 63>>

\* /qwen usage hint, empty question (line 393): "Пожалуйста, задайте вопрос. Например: /qwen Что было решено по проекту?"
UsageQwen2 ==
    <<1055, 1086, 1078, 1072, 1083, 1091, 1081, 1089, 1090, 1072, 44, 32, 1079, 1072, 1076,
      1072, 1081, 1090, 1077, 32, 1074, 1086, 1087, 1088, 1086, 1089, 46, 32, 1053, 1072, 1087,
      1088, 1080, 1084, 1077, 1088, 58, 32, 47, 113, 119, 101, 110, 32, 1063, 1090, 1086, 32,
      1073, 1099, 1083, 1086, 32, 1088, 1077, 1096, 1077, 1085, 1086, 32, 1087, 1086, 32, 1087,
      1088, 1086, 1077, 1082, 1090, 1091, 63>>

\* /qwen working acknowledgment, before the count (line 396): "Ищу в последних "
AckQwenPre ==
    <<1048, 1097, 1091, 32, 1074, 32, 1087, 1086, 1089, 1083, 1077, 1076, 1085, 1080, 1093, 32>>

\* /qwen working acknowledgment, after the count (line 396): " сохраненных сообщениях ответ на ваш вопрос... Это может занять некоторое время."
AckQwenPost ==
    <<32, 1089, 1086, 1093, 1088, 1072, 1085, 1077, 1085, 1085, 1099, 1093, 32, 1089, 1086,
      1086, 1073, 1097, 1077, 1085, 1080, 1103, 1093, 32, 1086, 1090, 1074, 1077, 1090, 32,
      1085, 1072, 32, 1074, 1072, 1096, 32, 1074, 1086, 1087, 1088, 1086, 1089, 46, 46, 46, 32,
      1069, 1090, 1086, 32, 1084, 1086, 1078, 1077, 1090, 32, 1079, 1072, 1085, 1103, 1090,
      1100, 32, 1085, 1077, 1082, 1086, 1090, 1086, 1088, 1086, 1077, 32, 1074, 1088, 1077,
      1084, 1103, 46>>

\* /qwen "no history" notice (line 403): "В моей базе данных еще нет сохраненных сообщений из этого чата для ответа на ваш вопрос. Пожалуйста, подождите."
NoHistoryQwen ==
    <<1042, 32, 1084, 1086, 1077, 1081, 32, 1073, 1072, 1079, 1077, 32, 1076, 1072, 1085, 1085,
      1099, 1093, 32, 1077, 1097, 1077, 32, 1085, 1077, 1090, 32, 1089, 1086, 1093, 1088, 1072,
      1085, 1077, 1085, 1085, 1099, 1093, 32, 1089, 1086, 1086, 1073, 1097, 1077, 1085, 1080,
      1081, 32, 1080, 1079, 32, 1101, 1090, 1086, 1075, 1086, 32, 1095, 1072, 1090, 1072, 32,
      1076, 1083, 1103, 32, 1086, 1090, 1074, 1077, 1090, 1072, 32, 1085, 1072, 32, 1074, 1072,
      1096, 32, 1074, 1086, 1087, 1088, 1086, 1089, 46, 32, 1055, 1086, 1078, 1072, 1083, 1091,
      1081, 1089, 1090, 1072, 44, 32, 1087, 1086, 1076, 1086, 1078, 1076, 1080, 1090, 1077, 46>>

\* /qwen ValueError notice, after the count (line 504): " сообщений для вашего вопроса."
ValueErrorQwenPost ==
    <<32, 1089, 1086, 1086, 1073, 1097, 1077, 1085, 1080, 1081, 32, 1076, 1083, 1103, 32, 1074,
      1072, 1096, 1077, 1075, 1086, 32, 1074, 1086, 1087, 1088, 1086, 1089, 1072, 46>>

\* /qwen error notice (line 510): "Произошла ошибка при попытке обработать команду /qwen."
ErrorQwen ==
    <<1055, 1088, 1086, 1080, 1079, 1086, 1096, 1083, 1072, 32, 1086, 1096, 1080, 1073, 1082,
      1072, 32, 1087, 1088, 1080, 32, 1087, 1086, 1087, 1099, 1090, 1082, 1077, 32, 1086, 1073,
      1088, 1072, 1073, 1086, 1090, 1072, 1090, 1100, 32, 1082, 1086, 1084, 1072, 1085, 1076,
      1091, 32, 47, 113, 119, 101, 110, 46>>

\* link message of send_long_message, before the URL (line 293): "Ответ слишком длинный для отправки в Telegram. Вы можете прочитать его по ссылке: "
LinkPre ==
    <<1054, 1090, 1074, 1077, 1090, 32, 1089, 1083, 1080, 1096, 1082, 1086, 1084, 32, 1076,
      1083, 1080, 1085, 1085, 1099, 1081, 32, 1076, 1083, 1103, 32, 1086, 1090, 1087, 1088,
      1072, 1074, 1082, 1080, 32, 1074, 32, 84, 101, 108, 101, 103, 114, 97, 109, 46, 32, 1042,
      1099, 32, 1084, 1086, 1078, 1077, 1090, 1077, 32, 1087, 1088, 1086, 1095, 1080, 1090,
      1072, 1090, 1100, 32, 1077, 1075, 1086, 32, 1087, 1086, 32, 1089, 1089, 1099, 1083, 1082,
      1077, 58, 32>>
\* ---------------------------------------------------------------------------
\* str operations used by the code
\* ---------------------------------------------------------------------------
\* the whitespace str.strip() removes: space, \t, \n, \r
IsSpace(ch) == ch \in {32, 9, 10, 13}

RECURSIVE LStrip(_)
LStrip(s) == IF s # <<>> /\ IsSpace(Head(s)) THEN LStrip(Tail(s)) ELSE s

RECURSIVE RStrip(_)
RStrip(s) ==
    IF s # <<>> /\ IsSpace(s[Len(s)]) THEN RStrip(SubSeq(s, 1, Len(s) - 1)) ELSE s

\* s.strip()
Strip(s) == RStrip(LStrip(s))

\* t (not empty) occurs in s at index i
OccursAt(s, t, i) == s[i] = t[1] /\ SubSeq(s, i, i + Len(t) - 1) = t

\* the indices at which t occurs in s
Occurrences(s, t) == {i \in 1..(Len(s) - Len(t) + 1) : OccursAt(s, t, i)}

\* t in s
Contains(s, t) == Occurrences(s, t) # {}

\* s.find(t) + 1: the index of the first occurrence of t in s, 0 when there is none
Find(s, t) ==
    LET hits == Occurrences(s, t)
    IN  IF hits = {} THEN 0 ELSE CHOOSE i \in hits : \A j \in hits : i <= j

\* s.rsplit(t, 1)[-1]: the text after the last occurrence of t
SplitAfterLast(s, t) ==
    LET hits == Occurrences(s, t)
    IN  IF hits = {} THEN s
        ELSE LET i == CHOOSE n \in hits : \A m \in hits : m <= n
             IN  SubSeq(s, i + Len(t), Len(s))

\* s.split(t, 1)[-1] (equally [1] when t occurs): the text after the first
\* occurrence of t; s itself when t does not occur
SplitAfter(s, t) ==
    LET i == Find(s, t)
    IN  IF i = 0 THEN s ELSE SubSeq(s, i + Len(t), Len(s))

\* characters for which str.isdigit() is true: the decimal digits 0-9 and
\* digit-like characters that int() rejects, of which SUPERSCRIPT TWO (178)
\* stands for all
DecimalChars == 48..57
DigitChars == DecimalChars \cup {178}

\* s.isdigit()
IsDigit(s) == s # <<>> /\ \A k \in 1..Len(s) : s[k] \in DigitChars

\* int(s) raises ValueError
IntRaises(s) == \E k \in 1..Len(s) : s[k] \notin DecimalChars

RECURSIVE IntOf(_)
\* int(s) for a string of decimal digits
IntOf(s) == IF s = <<>> THEN 0 ELSE 10 * IntOf(SubSeq(s, 1, Len(s) - 1)) + (s[Len(s)] - 48)

RECURSIVE Decimal(_)
\* str(n) for n >= 0, as f"{n}" formats it
Decimal(n) == IF n < 10 THEN <<48 + n>> ELSE Decimal(n \div 10) \o <<48 + (n % 10)>>

\* ---------------------------------------------------------------------------
\* call_cerebras_api: post-processing of the completion text (lines 194-206)
\* ---------------------------------------------------------------------------
RECURSIVE ThinkingLoop(_, _)
\* the for/else loop over thinking_tags from tag k on: the first tag found
\* splits the text and ends the loop (break)
ThinkingLoop(final_response, k) ==
    IF k > Len(thinking_tags) THEN final_response
    ELSE IF Contains(final_response, thinking_tags[k])
         THEN Strip(SplitAfter(final_response, thinking_tags[k]))
         ELSE ThinkingLoop(final_response, k + 1)

\* the post-processing without the strip() of line 194
FinalResponseUntrimmed(response_content) == ThinkingLoop(response_content, 1)

\* what call_cerebras_api returns for the completion text response_content
FinalResponse(response_content) == ThinkingLoop(Strip(response_content), 1)

\* The outcome of one completion request: the request raises (transport,
\* authentication, a response without content) or it carries a text.
ApiFailure == [raises |-> TRUE, content |-> <<>>]
ApiAnswer(content) == [raises |-> FALSE, content |-> content]

\* call_cerebras_api without its except clause: a failed request yields no text
CallCerebrasApiUncaught(outcome) == FinalResponse(outcome.content)

\* call_cerebras_api(prompt, ...): every exception of the try block becomes
\* the fixed apology string (lines 207-209)
CallCerebrasApi(outcome) ==
    IF outcome.raises THEN Apology ELSE FinalResponse(outcome.content)

\* ---------------------------------------------------------------------------
\* handle_qwen_command: the answer post-processing (lines 420-489)
\* ---------------------------------------------------------------------------
RECURSIVE MarkerChain(_, _)
\* the if/elif chain from branch k on: the first branch whose marker is in the
\* answer replaces it by the stripped text after the marker's first occurrence
MarkerChain(answer, k) ==
    IF k > Len(AnswerMarkers) THEN answer
    ELSE IF Contains(answer, AnswerMarkers[k])
         THEN Strip(SplitAfter(answer, AnswerMarkers[k]))
         ELSE MarkerChain(answer, k + 1)

NormalizeAnswer(answer) == MarkerChain(answer, 1)

\* ---------------------------------------------------------------------------
\* Command arguments. parts is message.text.split(...): parts[1] is the
\* command itself (Python's parts[0]), parts[2] the first argument.
\* ---------------------------------------------------------------------------
\* the range test with "<" for "<=": a count of 0 passes
ClampCountZeroPasses(n) == IF n < 0 \/ n > 500 THEN DEFAULT_MESSAGE_COUNT ELSE n

\* lines 315-316 and 386-387
ClampCount(n) == IF n <= 0 \/ n > 500 THEN DEFAULT_MESSAGE_COUNT ELSE n

\* handle_history_command, lines 311-316: int() raises ValueError
HistoryRaises(parts) == Len(parts) > 1 /\ IsDigit(parts[2]) /\ IntRaises(parts[2])

\* handle_history_command, lines 311-316: num_messages
HistoryNumMessages(parts) ==
    IF Len(parts) > 1 /\ IsDigit(parts[2])
    THEN ClampCount(IntOf(parts[2]))
    ELSE DEFAULT_MESSAGE_COUNT

\* handle_qwen_command, lines 383-385: int() raises ValueError
QwenRaises(parts) == Len(parts) = 3 /\ IsDigit(parts[2]) /\ IntRaises(parts[2])

\* handle_qwen_command, lines 375-390: num_messages
QwenNumMessages(parts) ==
    IF Len(parts) = 3 /\ IsDigit(parts[2])
    THEN ClampCount(IntOf(parts[2]))
    ELSE DEFAULT_MESSAGE_COUNT

\* handle_qwen_command, lines 376-390: user_question
QwenQuestion(parts) ==
    CASE Len(parts) = 1 -> <<>>
      [] Len(parts) = 2 -> parts[2]
      [] Len(parts) = 3 /\ IsDigit(parts[2]) -> parts[3]
      [] OTHER -> parts[2] \o <<32>> \o parts[3]

\* ---------------------------------------------------------------------------
\* escape_markdown (lines 211-223)
\* ---------------------------------------------------------------------------
\* escape_chars (line 214): _ * [ ] ( ) ~ ` > # + - = | { } . !
escape_chars ==
    <<95, 42, 91, 93, 40, 41, 126, 96, 62, 35, 43, 45, 61, 124, 123, 125, 46, 33>>

\* the backslash
Backslash == 92

\* text.replace(char, rep) for a pattern of one character
RECURSIVE Replace(_, _, _)
Replace(text, char, rep) ==
    IF text = <<>> THEN <<>>
    ELSE (IF Head(text) = char THEN rep ELSE <<Head(text)>>) \o Replace(Tail(text), char, rep)

\* lines 220-221: the loop over escape_chars, from its k-th character on
RECURSIVE EscapeLoop(_, _)
EscapeLoop(text, k) ==
    IF k > Len(escape_chars) THEN text
    ELSE EscapeLoop(Replace(text, escape_chars[k], <<Backslash, escape_chars[k]>>), k + 1)

\* escape_markdown with the backslashes doubled after the loop instead of
\* before it
EscapeMarkdownBackslashLast(text) ==
    Replace(EscapeLoop(text, 1), Backslash, <<Backslash, Backslash>>)

\* escape_markdown(text): backslashes are doubled first (line 217)
EscapeMarkdown(text) ==
    EscapeLoop(Replace(text, Backslash, <<Backslash, Backslash>>), 1)

\* ---------------------------------------------------------------------------
\* The archive: the tables Chat and ChatMessage (lines 44-57)
\* ---------------------------------------------------------------------------
\* the chats of the model and their kinds (message.chat.type)
Chats == {1, 2}
ChatType(c) == IF c = 1 THEN "group" ELSE "supergroup"
ChatTitle(c) == IF c = 1 THEN "team" ELSE "family"

\* No value (Python's None)
None == "None"

\* stored dates that datetime.fromisoformat cannot parse (line 124). The query
\* of line 109 orders the stored strings: BadDate (such as "" or "0000") sorts
\* before every ISO date, BadDateAfter (such as "n/a") after every ISO date.
BadDate == -1
BadDateAfter == 99
BadDates == {BadDate, BadDateAfter}

\* An aiogram Message as the code reads it: chat.id, chat.title, chat.type,
\* from_user (first_name, last_name, whether it is the bot), text, date.
Msg(c, title, first, last, text, date, bot) ==
    [chat_id |-> c, chat_title |-> title, chat_type |-> IF c = 0 THEN None ELSE ChatType(c),
     first_name |-> first, last_name |-> last, text |-> text, date |-> date,
     from_bot |-> bot]

\* the Message the platform returns for a reply of the bot sent at time t
BotMsg(c, text, t) == Msg(c, ChatTitle(c), "bot", None, text, t, TRUE)

\* How one save_message_to_db call can end: "ok"; "chat": Chat.get_or_create
\* or chat_obj.save() raised, nothing was written; "message":
\* ChatMessage.create raised after the Chat row was written. The except clause
\* of line 93 logs the exception.
SaveOutcomes == {"ok", "chat", "message"}

\* lines 72-78 without the title refresh of lines 79-81
ChatAfterSaveNoRefresh(chatTable, message, outcome) ==
    IF message.text = <<>> \/ outcome = "chat" THEN chatTable
    ELSE IF \E r \in chatTable : r.chat_id = message.chat_id THEN chatTable
         ELSE chatTable \cup {[chat_id |-> message.chat_id,
                               chat_title |-> message.chat_title,
                               chat_type |-> message.chat_type]}

\* save_message_to_db, lines 72-81: the Chat table after the call
ChatAfterSave(chatTable, message, outcome) ==
    IF message.text = <<>> \/ outcome = "chat" THEN chatTable
    ELSE IF \E r \in chatTable : r.chat_id = message.chat_id
         THEN {IF r.chat_id = message.chat_id /\ r.chat_title # message.chat_title
               THEN [r EXCEPT !.chat_title = message.chat_title]
               ELSE r : r \in chatTable}
         ELSE chatTable \cup {[chat_id |-> message.chat_id,
                               chat_title |-> message.chat_title,
                               chat_type |-> message.chat_type]}

\* lines 83-91 without the early return of lines 68-69
ChatMessageAfterSaveAnyText(msgTable, message, outcome) ==
    IF outcome # "ok" THEN msgTable
    ELSE Append(msgTable, [chat |-> message.chat_id,
                           first_name |-> message.first_name,
                           last_name |-> message.last_name,
                           text |-> message.text,
                           date |-> message.date])

\* save_message_to_db, lines 68-69 and 83-91: the ChatMessage table after the
\* call (message_id, the AutoField, is the index in the sequence)
ChatMessageAfterSave(msgTable, message, outcome) ==
    IF message.text = <<>> \/ outcome # "ok" THEN msgTable
    ELSE Append(msgTable, [chat |-> message.chat_id,
                           first_name |-> message.first_name,
                           last_name |-> message.last_name,
                           text |-> message.text,
                           date |-> message.date])

\* the query without the where clause of line 108
RowsOfAnyChat(msgTable, chat_id) == 1..Len(msgTable)

\* the message_ids of the rows of chat_id
RowsOf(msgTable, chat_id) == {i \in 1..Len(msgTable) : msgTable[i].chat = chat_id}

RECURSIVE DescLimit(_, _, _)
\* .order_by(ChatMessage.date.desc()).limit(k) over the rows `ids`: every
\* sequence the query may return, rows of equal date in any order
DescLimit(msgTable, ids, k) ==
    IF k = 0 \/ ids = {} THEN {<<>>}
    ELSE LET newest == {i \in ids : \A j \in ids : msgTable[j].date <= msgTable[i].date}
         IN  UNION {{<<i>> \o q : q \in DescLimit(msgTable, ids \ {i}, k - 1)} : i \in newest}

\* lines 114-137: the dictionary built for one row
HistoryEntry(row, now) ==
    [sender_name |-> IF row.last_name # None THEN <<row.first_name, row.last_name>>
                     ELSE <<row.first_name>>,
     text |-> row.text,
     date |-> IF row.date \in BadDates THEN now ELSE row.date]

\* history[::-1]
Reverse(s) == [i \in 1..Len(s) |-> s[Len(s) + 1 - i]]

\* get_chat_history_from_db without the reversal of line 140
GetChatHistoryNewestFirst(chatTable, msgTable, chat_id, limit, now, queryRaises) ==
    IF queryRaises \/ ~(\E r \in chatTable : r.chat_id = chat_id) THEN {<<>>}
    ELSE {[i \in 1..Len(q) |-> HistoryEntry(msgTable[q[i]], now)] :
            q \in DescLimit(msgTable, RowsOf(msgTable, chat_id), limit)}

\* get_chat_history_from_db(chat_id, limit): every list the call may return.
\* queryRaises: the query raised and the except clause of line 144 returned [].
GetChatHistoryFromDb(chatTable, msgTable, chat_id, limit, now, queryRaises) ==
    IF queryRaises \/ ~(\E r \in chatTable : r.chat_id = chat_id) THEN {<<>>}
    ELSE {Reverse([i \in 1..Len(q) |-> HistoryEntry(msgTable[q[i]], now)]) :
            q \in DescLimit(msgTable, RowsOf(msgTable, chat_id), limit)}

\* ---------------------------------------------------------------------------
\* send_long_message (lines 260-304)
\* ---------------------------------------------------------------------------
\* ParseMode values; None is no markup mode
MARKDOWN == "Markdown"
MARKDOWN_V2 == "MarkdownV2"

\* page['url'], the address of the published document: "https://telegra.ph/a"
PublishedUrl ==
    <<104, 116, 116, 112, 115, 58, 47, 47, 116, 101, 108, 101, 103, 114, 97, 46, 112, 104, 47, 97>>

\* How the document publishing of lines 273-289 can end: "ok"; "account":
\* telegraph.create_account raised; "page": client.create_page raised.
TelegraphOutcomes == {"ok", "account", "page"}

\* text[:TELEGRAM_MESSAGE_LIMIT + 1]
TruncatedOneMore(text) == SubSeq(text, 1, TELEGRAM_MESSAGE_LIMIT + 1)

\* text[:TELEGRAM_MESSAGE_LIMIT]
Truncated(text) == SubSeq(text, 1, TELEGRAM_MESSAGE_LIMIT)

\* line 268 with "<" for "<=": a text of exactly the limit overflows
FitsInlineBelowLimit(text) == Len(text) < TELEGRAM_MESSAGE_LIMIT

\* line 268: the text goes out as one platform message
FitsInline(text) == Len(text) <= TELEGRAM_MESSAGE_LIMIT

\* The reply send_long_message awaits: stage "inline" (line 269), "link"
\* (line 292) or "truncated" (lines 300 and 304), with the text and the markup
\* mode handed to message.reply; parse_mode is the parameter of the call.
NoSend == [stage |-> "none", text |-> <<>>, mode |-> None, parse_mode |-> None]
InlineSend(text, parse_mode) ==
    [stage |-> "inline", text |-> text, mode |-> parse_mode, parse_mode |-> parse_mode]
LinkSend(parse_mode) ==
    [stage |-> "link", text |-> LinkPre \o PublishedUrl, mode |-> None,
     parse_mode |-> parse_mode]
TruncatedSend(text, parse_mode) ==
    [stage |-> "truncated", text |-> Truncated(text), mode |-> parse_mode,
     parse_mode |-> parse_mode]

\* send_long_message up to its first await: telegraph is the outcome of the
\* document publishing, which is attempted only for a text over the limit
SendLongMessage(text, parse_mode, telegraph) ==
    IF FitsInline(text) THEN InlineSend(text, parse_mode)
    ELSE IF telegraph = "ok" THEN LinkSend(parse_mode)
    ELSE TruncatedSend(text, parse_mode)

\* the publishing outcomes send_long_message(text, ...) can meet: "none" when
\* no publishing is attempted
PublishingOf(text) == IF FitsInline(text) THEN {"none"} ELSE TelegraphOutcomes

\* ---------------------------------------------------------------------------
\* Inputs of the model
\* ---------------------------------------------------------------------------
\* "/history" and "/qwen"
CmdHistory == <<47, 104, 105, 115, 116, 111, 114, 121>>
CmdQwen == <<47, 113, 119, 101, 110>>

\* first arguments: "0", "1", "500", "501", "-5" and SUPERSCRIPT TWO
ArgTokens == {<<48>>, <<49>>, <<53, 48, 48>>, <<53, 48, 49>>, <<45, 53>>, <<178>>}

\* a question: "why"
Question == <<119, 104, 121>>

\* message.text.split() of a /history command
HistoryParts == {<<CmdHistory>>} \cup {<<CmdHistory, t>> : t \in ArgTokens}

\* message.text.split(maxsplit=2) of a /qwen command
QwenParts ==
    {<<CmdQwen>>, <<CmdQwen, Question>>} \cup {<<CmdQwen, t, Question>> : t \in ArgTokens}

\* n times the letter "a"
Pad(n) == [i \in 1..n |-> 97]

\* completion texts: " reasoning </think>### Итог: 42\n" (a thinking trace,
\* then an answer behind a marker), and texts of exactly the platform's
\* message limit and of one character more
Responses ==
    { <<32, 114, 101, 97, 115, 111, 110, 105, 110, 103, 32, 60, 47, 116, 104, 105, 110, 107, 62,
        35, 35, 35, 32, 1048, 1090, 1086, 1075, 58, 32, 52, 50, 10>>,
      Pad(TELEGRAM_MESSAGE_LIMIT),
      Pad(TELEGRAM_MESSAGE_LIMIT + 1) }

ApiOutcomes == {ApiFailure} \cup {ApiAnswer(r) : r \in Responses}

\* line 344: summary = call_cerebras_api(...), for each outcome of the request
\* (evaluated once and looked up by the steps)
Summary == [outcome \in ApiOutcomes |-> CallCerebrasApi(outcome)]

\* lines 418-489: answer = call_cerebras_api(...) followed by the
\* post-processing chain, for each outcome of the request
Answer == [outcome \in ApiOutcomes |-> NormalizeAnswer(CallCerebrasApi(outcome))]

\* the users who write in the chats, with the text each sends:
\* Alice "hi", Bob "yo"
Users == {"Alice", "Bob"}
UserText(u) == IF u = "Alice" THEN <<104, 105>> ELSE <<121, 111>>

\* the values of the platform's clock (message.date, in seconds)
Times == 1..2

\* the chat the command is sent in and the user who writes meanwhile (the
\* chats and the users are interchangeable)
CommandChat == 1
Writer == "Alice"

\* ---------------------------------------------------------------------------
\* State
\* ---------------------------------------------------------------------------
VARIABLES
    Chat,          \* the rows of table Chat: a set of [chat_id, chat_title, chat_type]
    ChatMessage,   \* the rows of table ChatMessage, in message_id order
    now,           \* the platform's clock
    userMsgs,      \* user text messages delivered so far
    inv,           \* the command invocation: its locals and its position
    events,        \* what the invocation did to its collaborators, in order
    probe          \* the last call of the function-level specifications

vars == <<Chat, ChatMessage, now, userMsgs, inv, events, probe>>

\* one thing a handler did: e is "reply", "delete", "save", "fetch", "api" or
\* "telegraph"; kind says which message or step; mode is the markup mode of a
\* reply; out is how it ended
Ev(e, kind, mode, out) == [e |-> e, kind |-> kind, mode |-> mode, out |-> out]

ReplyEv(kind, mode, ok) == Ev("reply", kind, mode, IF ok THEN "ok" ELSE "raised")
DeleteEv(ok) == Ev("delete", "ack", None, IF ok THEN "ok" ELSE "raised")
\* save_message_to_db(message): "skipped" is the early return of line 69
SaveEv(kind, message, outcome) ==
    Ev("save", kind, None, IF message.text = <<>> THEN "skipped" ELSE outcome)
FetchEv(raises) == Ev("fetch", "history", None, IF raises THEN "raised" ELSE "ok")
ApiEv(outcome) == Ev("api", "completion", None, IF outcome.raises THEN "raised" ELSE "ok")
TelegraphEvs(telegraph) ==
    IF telegraph = "none" THEN <<>> ELSE <<Ev("telegraph", "publish", None, telegraph)>>

\* message.reply(text, ...) and message.delete() either succeed or raise; the
\* platform accepts no empty text
ReplyOutcomes(text) == IF text = <<>> THEN {FALSE} ELSE BOOLEAN

\* processing_msg = None (lines 309 and 371)
NoMessage == Msg(0, None, None, None, <<>>, 0, TRUE)

\* the locals of a handler before its first statement
Idle ==
    [pc |-> "idle", cmd |-> None, chat |-> 0, parts |-> <<>>,
     num_messages |-> DEFAULT_MESSAGE_COUNT, processing_msg |-> NoMessage,
     chat_history |-> <<>>, answer |-> <<>>, send |-> NoSend, error |-> None]

\* no call of the function-level specifications
NoProbe == [fn |-> None, in |-> <<>>, out |-> <<>>, returned |-> FALSE]

Init ==
    /\ Chat = {}
    /\ ChatMessage = <<>>
    /\ now = 1
    /\ userMsgs = 0
    /\ inv = Idle
    /\ events = <<>>
    /\ probe = NoProbe

\* ---------------------------------------------------------------------------
\* The platform
\* ---------------------------------------------------------------------------
Tick ==
    /\ now + 1 \in Times
    /\ now' = now + 1
    /\ UNCHANGED <<Chat, ChatMessage, userMsgs, inv, events, probe>>

\* handle_all_text_messages (lines 514-527) for a text message of user u in
\* chat c dated t: messages of the bot, commands and messages outside groups
\* are not archived. The handler has no await before save_message_to_db, so it
\* runs as one step.
HandleAllTextMessages(c, u, t, outcome) ==
    LET message == Msg(c, ChatTitle(c), u, None, UserText(u), t, FALSE)
        archived == /\ ~message.from_bot
                    /\ Head(message.text) # 47
                    /\ message.chat_type \in {"group", "supergroup"}
    IN  /\ userMsgs < MaxUserMsgs
        /\ userMsgs' = userMsgs + 1
        /\ Chat' = IF archived THEN ChatAfterSave(Chat, message, outcome) ELSE Chat
        /\ ChatMessage' = IF archived THEN ChatMessageAfterSave(ChatMessage, message, outcome)
                          ELSE ChatMessage
        /\ UNCHANGED <<now, inv, events, probe>>

\* ---------------------------------------------------------------------------
\* handle_history_command (lines 307-367). Each action is the code between
\* two awaits that suspend: it starts when the awaited platform call ends and
\* runs to the next platform call. save_message_to_db, get_chat_history_from_db
\* and call_cerebras_api never suspend (their bodies call synchronous clients),
\* so they run inside the step that reaches them.
\* ---------------------------------------------------------------------------
\* the model follows one command invocation from its start to its end
CanStart == inv.pc = "idle"

\* the working acknowledgment of line 318
AckHistory(n) == AckHistoryPre \o Decimal(n) \o AckHistoryPost

\* entering `except ValueError` (line 351) or `except Exception` (line 359):
\* the acknowledgment is deleted first when there is one
HistoryExcept(r, error) ==
    [r EXCEPT !.error = error,
              !.pc = IF r.processing_msg # NoMessage THEN "h_err_delete" ELSE "h_err_reply"]

\* the notice of the except clause taken (lines 357 and 366)
HistoryErrorText(error) ==
    IF error = "ValueError"
    THEN ValueErrorPre \o Decimal(DEFAULT_MESSAGE_COUNT) \o ValueErrorHistoryPost
    ELSE ErrorHistory

\* lines 309-318: the arguments are parsed, then the acknowledgment is sent
HistoryStart(c, p) ==
    /\ CanStart
    /\ events' = <<>>
    /\ inv' = IF HistoryRaises(p)
              THEN HistoryExcept([Idle EXCEPT !.cmd = "history", !.chat = c, !.parts = p],
                                 "ValueError")
              ELSE [Idle EXCEPT !.cmd = "history", !.chat = c, !.parts = p,
                                !.num_messages = HistoryNumMessages(p), !.pc = "h_ack"]
    /\ UNCHANGED <<Chat, ChatMessage, now, userMsgs, probe>>

\* lines 318-344: the acknowledgment reply ends; it is archived, the history
\* is fetched and, unless it is empty, the completion is requested
HistoryAck ==
    /\ inv.pc = "h_ack"
    /\ LET text == AckHistory(inv.num_messages)
       IN  \E ok \in ReplyOutcomes(text) :
             IF ~ok
             THEN /\ inv' = HistoryExcept(inv, "Exception")
                  /\ events' = events \o <<ReplyEv("ack", None, FALSE)>>
                  /\ UNCHANGED <<Chat, ChatMessage>>
             ELSE LET processing_msg == BotMsg(inv.chat, text, now)
                  IN  \E saved \in SaveOutcomes, queryRaises \in BOOLEAN :
                        LET chatTable == ChatAfterSave(Chat, processing_msg, saved)
                            msgTable == ChatMessageAfterSave(ChatMessage, processing_msg, saved)
                            done == events \o <<ReplyEv("ack", None, TRUE),
                                                SaveEv("ack", processing_msg, saved),
                                                FetchEv(queryRaises)>>
                        IN  /\ Chat' = chatTable
                            /\ ChatMessage' = msgTable
                            /\ \E chat_history \in
                                   GetChatHistoryFromDb(chatTable, msgTable, inv.chat,
                                                        inv.num_messages, now, queryRaises) :
                                 IF chat_history = <<>>
                                 THEN /\ inv' = [inv EXCEPT !.processing_msg = processing_msg,
                                                            !.chat_history = chat_history,
                                                            !.pc = "h_nohist_delete"]
                                      /\ events' = done
                                 ELSE \E outcome \in ApiOutcomes :
                                        /\ inv' = [inv EXCEPT
                                                     !.processing_msg = processing_msg,
                                                     !.chat_history = chat_history,
                                                     !.answer = Summary[outcome],
                                                     !.pc = "h_delete"]
                                        /\ events' = done \o <<ApiEv(outcome)>>
    /\ UNCHANGED <<now, userMsgs, probe>>

\* line 327: the delete of the acknowledgment ends, the notice of line 328 is sent
HistoryNoHistDelete ==
    /\ inv.pc = "h_nohist_delete"
    /\ \E ok \in BOOLEAN :
         /\ events' = events \o <<DeleteEv(ok)>>
         /\ inv' = IF ok THEN [inv EXCEPT !.pc = "h_nohist_reply"]
                   ELSE HistoryExcept(inv, "Exception")
    /\ UNCHANGED <<Chat, ChatMessage, now, userMsgs, probe>>

\* lines 328-330: the notice reply ends and is archived
HistoryNoHistReply ==
    /\ inv.pc = "h_nohist_reply"
    /\ \E ok \in ReplyOutcomes(NoHistoryHistory) :
         IF ok
         THEN \E saved \in SaveOutcomes :
                LET error_msg == BotMsg(inv.chat, NoHistoryHistory, now)
                IN  /\ Chat' = ChatAfterSave(Chat, error_msg, saved)
                    /\ ChatMessage' = ChatMessageAfterSave(ChatMessage, error_msg, saved)
                    /\ events' = events \o <<ReplyEv("nohistory", None, TRUE),
                                             SaveEv("nohistory", error_msg, saved)>>
                    /\ inv' = [inv EXCEPT !.pc = "done"]
         ELSE /\ events' = events \o <<ReplyEv("nohistory", None, FALSE)>>
              /\ inv' = HistoryExcept(inv, "Exception")
              /\ UNCHANGED <<Chat, ChatMessage>>
    /\ UNCHANGED <<now, userMsgs, probe>>

\* line 348 without the delete of lines 346-347: send_long_message runs to its
\* first reply while the acknowledgment stays
HistorySendsUndeleted ==
    /\ inv.pc = "h_delete"
    /\ \E telegraph \in PublishingOf(inv.answer) :
         /\ events' = events \o TelegraphEvs(telegraph)
         /\ inv' = [inv EXCEPT !.send = SendLongMessage(inv.answer, MARKDOWN, telegraph),
                               !.pc = "h_send"]
    /\ UNCHANGED <<Chat, ChatMessage, now, userMsgs, probe>>

\* lines 346-348: the delete of the acknowledgment ends and send_long_message
\* runs to its first reply
HistoryDelete ==
    /\ inv.pc = "h_delete"
    /\ \E ok \in BOOLEAN :
         IF ok
         THEN \E telegraph \in PublishingOf(inv.answer) :
                /\ events' = events \o <<DeleteEv(TRUE)>> \o TelegraphEvs(telegraph)
                /\ inv' = [inv EXCEPT !.send = SendLongMessage(inv.answer, MARKDOWN, telegraph),
                                      !.pc = "h_send"]
         ELSE /\ events' = events \o <<DeleteEv(FALSE)>>
              /\ inv' = HistoryExcept(inv, "Exception")
    /\ UNCHANGED <<Chat, ChatMessage, now, userMsgs, probe>>

\* lines 348-349 with 292-304: a reply of send_long_message ends. A sent
\* message is archived; a failed link reply is followed by the truncated text
\* (the except clauses of send_long_message); any other failure leaves
\* send_long_message as an exception.
HistorySend ==
    /\ inv.pc = "h_send"
    /\ \E ok \in ReplyOutcomes(inv.send.text) :
         LET replied == ReplyEv(inv.send.stage, inv.send.mode, ok)
         IN  IF ok
             THEN \E saved \in SaveOutcomes :
                    LET response_msg == BotMsg(inv.chat, inv.send.text, now)
                    IN  /\ Chat' = ChatAfterSave(Chat, response_msg, saved)
                        /\ ChatMessage' = ChatMessageAfterSave(ChatMessage, response_msg, saved)
                        /\ events' = events \o <<replied, SaveEv("result", response_msg, saved)>>
                        /\ inv' = [inv EXCEPT !.pc = "done"]
             ELSE /\ events' = events \o <<replied>>
                  /\ inv' = IF inv.send.stage = "link"
                            THEN [inv EXCEPT !.send = TruncatedSend(inv.answer, MARKDOWN)]
                            ELSE HistoryExcept(inv, "Exception")
                  /\ UNCHANGED <<Chat, ChatMessage>>
    /\ UNCHANGED <<now, userMsgs, probe>>

\* lines 352-356 and 361-365: the delete inside the except clause; its own
\* failure is logged and the notice is sent all the same
HistoryErrDelete ==
    /\ inv.pc = "h_err_delete"
    /\ \E ok \in BOOLEAN :
         /\ events' = events \o <<DeleteEv(ok)>>
         /\ inv' = [inv EXCEPT !.pc = "h_err_reply"]
    /\ UNCHANGED <<Chat, ChatMessage, now, userMsgs, probe>>

\* lines 357-358 and 366-367: the notice of the except clause; when this reply
\* raises, the exception leaves the handler
HistoryErrReply ==
    /\ inv.pc = "h_err_reply"
    /\ LET text == HistoryErrorText(inv.error)
       IN  \E ok \in ReplyOutcomes(text) :
             IF ok
             THEN \E saved \in SaveOutcomes :
                    LET error_msg == BotMsg(inv.chat, text, now)
                    IN  /\ Chat' = ChatAfterSave(Chat, error_msg, saved)
                        /\ ChatMessage' = ChatMessageAfterSave(ChatMessage, error_msg, saved)
                        /\ events' = events \o <<ReplyEv("error", None, TRUE),
                                                 SaveEv("error", error_msg, saved)>>
                        /\ inv' = [inv EXCEPT !.pc = "done"]
             ELSE /\ events' = events \o <<ReplyEv("error", None, FALSE)>>
                  /\ inv' = [inv EXCEPT !.pc = "raised"]
                  /\ UNCHANGED <<Chat, ChatMessage>>
    /\ UNCHANGED <<now, userMsgs, probe>>

\* ---------------------------------------------------------------------------
\* handle_qwen_command (lines 369-511), in the same steps
\* ---------------------------------------------------------------------------
\* the working acknowledgment of line 396
AckQwen(n) == AckQwenPre \o Decimal(n) \o AckQwenPost

\* entering `except ValueError` (line 501) or `except Exception` (line 506)
QwenExcept(r, error) ==
    [r EXCEPT !.error = error,
              !.pc = IF r.processing_msg # NoMessage THEN "q_err_delete" ELSE "q_err_reply"]

\* the notice of the except clause taken (lines 504 and 510)
QwenErrorText(error) ==
    IF error = "ValueError"
    THEN ValueErrorPre \o Decimal(DEFAULT_MESSAGE_COUNT) \o ValueErrorQwenPost
    ELSE ErrorQwen

\* the usage hint of line 379 (no argument) or of line 393 (empty question)
QwenUsageText(parts) == IF Len(parts) = 1 THEN UsageQwen1 ELSE UsageQwen2

\* lines 371-396: the arguments are parsed; a usage hint or the
\* acknowledgment is sent
QwenStart(c, p) ==
    /\ CanStart
    /\ events' = <<>>
    /\ LET r == [Idle EXCEPT !.cmd = "qwen", !.chat = c, !.parts = p]
       IN  inv' = IF Len(p) = 1 THEN [r EXCEPT !.pc = "q_usage"]
                  ELSE IF QwenRaises(p) THEN QwenExcept(r, "ValueError")
                  ELSE IF QwenQuestion(p) = <<>> THEN [r EXCEPT !.pc = "q_usage"]
                  ELSE [r EXCEPT !.num_messages = QwenNumMessages(p), !.pc = "q_ack"]
    /\ UNCHANGED <<Chat, ChatMessage, now, userMsgs, probe>>

\* the usage hint without the return of lines 380 and 394: the handler goes on
\* to the acknowledgment
QwenUsageFallsThrough ==
    /\ inv.pc = "q_usage"
    /\ LET text == QwenUsageText(inv.parts)
       IN  \E ok \in ReplyOutcomes(text) :
             /\ events' = events \o <<ReplyEv("usage", None, ok)>>
             /\ inv' = IF ok THEN [inv EXCEPT !.pc = "q_ack"] ELSE QwenExcept(inv, "Exception")
    /\ UNCHANGED <<Chat, ChatMessage, now, userMsgs, probe>>

\* lines 379-380 and 393-394: the usage hint reply ends and the handler returns
QwenUsage ==
    /\ inv.pc = "q_usage"
    /\ LET text == QwenUsageText(inv.parts)
       IN  \E ok \in ReplyOutcomes(text) :
             /\ events' = events \o <<ReplyEv("usage", None, ok)>>
             /\ inv' = IF ok THEN [inv EXCEPT !.pc = "done"] ELSE QwenExcept(inv, "Exception")
    /\ UNCHANGED <<Chat, ChatMessage, now, userMsgs, probe>>

\* lines 396-489: the acknowledgment reply ends; the history is fetched and,
\* unless it is empty, the completion is requested and post-processed
QwenAck ==
    /\ inv.pc = "q_ack"
    /\ LET text == AckQwen(inv.num_messages)
       IN  \E ok \in ReplyOutcomes(text) :
             IF ~ok
             THEN /\ inv' = QwenExcept(inv, "Exception")
                  /\ events' = events \o <<ReplyEv("ack", None, FALSE)>>
             ELSE LET processing_msg == BotMsg(inv.chat, text, now)
                  IN  \E queryRaises \in BOOLEAN :
                        LET done == events \o <<ReplyEv("ack", None, TRUE),
                                                FetchEv(queryRaises)>>
                        IN  \E chat_history \in
                                GetChatHistoryFromDb(Chat, ChatMessage, inv.chat,
                                                     inv.num_messages, now, queryRaises) :
                              IF chat_history = <<>>
                              THEN /\ inv' = [inv EXCEPT !.processing_msg = processing_msg,
                                                         !.chat_history = chat_history,
                                                         !.pc = "q_nohist_delete"]
                                   /\ events' = done
                              ELSE \E outcome \in ApiOutcomes :
                                     /\ inv' = [inv EXCEPT
                                                  !.processing_msg = processing_msg,
                                                  !.chat_history = chat_history,
                                                  !.answer = Answer[outcome],
                                                  !.pc = "q_delete"]
                                     /\ events' = done \o <<ApiEv(outcome)>>
    /\ UNCHANGED <<Chat, ChatMessage, now, userMsgs, probe>>

\* line 402: the delete of the acknowledgment ends, the notice of line 403 is sent
QwenNoHistDelete ==
    /\ inv.pc = "q_nohist_delete"
    /\ \E ok \in BOOLEAN :
         /\ events' = events \o <<DeleteEv(ok)>>
         /\ inv' = IF ok THEN [inv EXCEPT !.pc = "q_nohist_reply"]
                   ELSE QwenExcept(inv, "Exception")
    /\ UNCHANGED <<Chat, ChatMessage, now, userMsgs, probe>>

\* lines 403-404: the notice reply ends and the handler returns
QwenNoHistReply ==
    /\ inv.pc = "q_nohist_reply"
    /\ \E ok \in ReplyOutcomes(NoHistoryQwen) :
         /\ events' = events \o <<ReplyEv("nohistory", None, ok)>>
         /\ inv' = IF ok THEN [inv EXCEPT !.pc = "done"] ELSE QwenExcept(inv, "Exception")
    /\ UNCHANGED <<Chat, ChatMessage, now, userMsgs, probe>>

\* lines 491-494: the delete of the acknowledgment ends and
\* send_long_message(..., MARKDOWN_V2) runs to its first reply
QwenDelete ==
    /\ inv.pc = "q_delete"
    /\ \E ok \in BOOLEAN :
         IF ok
         THEN \E telegraph \in PublishingOf(inv.answer) :
                /\ events' = events \o <<DeleteEv(TRUE)>> \o TelegraphEvs(telegraph)
                /\ inv' = [inv EXCEPT
                             !.send = SendLongMessage(inv.answer, MARKDOWN_V2, telegraph),
                             !.pc = "q_send"]
         ELSE /\ events' = events \o <<DeleteEv(FALSE)>>
              /\ inv' = QwenExcept(inv, "Exception")
    /\ UNCHANGED <<Chat, ChatMessage, now, userMsgs, probe>>

\* a retry that requests the completion again before it sends
QwenRetryAsksAgain(done) ==
    \E telegraph \in PublishingOf(inv.answer), outcome \in ApiOutcomes :
      /\ events' = done \o <<ApiEv(outcome)>> \o TelegraphEvs(telegraph)
      /\ inv' = [inv EXCEPT !.send = SendLongMessage(inv.answer, None, telegraph),
                            !.pc = "q_resend"]

\* lines 496-498: the exception of the first send_long_message is caught and
\* send_long_message(message, answer) runs to its first reply
QwenRetryPlain(done) ==
    \E telegraph \in PublishingOf(inv.answer) :
      /\ events' = done \o TelegraphEvs(telegraph)
      /\ inv' = [inv EXCEPT !.send = SendLongMessage(inv.answer, None, telegraph),
                            !.pc = "q_resend"]

\* an exception of the second send_long_message reaches line 506
QwenGiveUp(done) ==
    /\ events' = done
    /\ inv' = QwenExcept(inv, "Exception")

\* A reply of send_long_message ends at the handler's position `at` ("q_send":
\* the call of line 494, "q_resend": the call of line 498). A sent message is
\* archived (lines 495 and 499); a failed link reply is followed by the
\* truncated text with the call's markup mode; any other failure leaves
\* send_long_message as an exception.
QwenReplyEnds(at, parse_mode) ==
    /\ inv.pc = at
    /\ \E ok \in ReplyOutcomes(inv.send.text) :
         LET replied == ReplyEv(inv.send.stage, inv.send.mode, ok)
         IN  IF ok
             THEN \E saved \in SaveOutcomes :
                    LET response_msg == BotMsg(inv.chat, inv.send.text, now)
                    IN  /\ Chat' = ChatAfterSave(Chat, response_msg, saved)
                        /\ ChatMessage' = ChatMessageAfterSave(ChatMessage, response_msg, saved)
                        /\ events' = events \o <<replied, SaveEv("result", response_msg, saved)>>
                        /\ inv' = [inv EXCEPT !.pc = "done"]
             ELSE /\ UNCHANGED <<Chat, ChatMessage>>
                  /\ IF inv.send.stage = "link"
                     THEN /\ events' = events \o <<replied>>
                          /\ inv' = [inv EXCEPT !.send = TruncatedSend(inv.answer, parse_mode)]
                     ELSE IF at = "q_send"
                     THEN QwenRetryPlain(events \o <<replied>>)
                     ELSE QwenGiveUp(events \o <<replied>>)
    /\ UNCHANGED <<now, userMsgs, probe>>

\* lines 493-497: a reply of the first send_long_message ends
QwenSend == QwenReplyEnds("q_send", MARKDOWN_V2)

\* lines 498-499: a reply of the second send_long_message ends
QwenResend == QwenReplyEnds("q_resend", None)

\* lines 502-503 and 508-509: the delete inside the except clause is not
\* guarded: when it raises, the exception leaves the handler
QwenErrDelete ==
    /\ inv.pc = "q_err_delete"
    /\ \E ok \in BOOLEAN :
         /\ events' = events \o <<DeleteEv(ok)>>
         /\ inv' = [inv EXCEPT !.pc = IF ok THEN "q_err_reply" ELSE "raised"]
    /\ UNCHANGED <<Chat, ChatMessage, now, userMsgs, probe>>

\* lines 504-505 and 510-511: the notice of the except clause
QwenErrReply ==
    /\ inv.pc = "q_err_reply"
    /\ LET text == QwenErrorText(inv.error)
       IN  \E ok \in ReplyOutcomes(text) :
             IF ok
             THEN \E saved \in SaveOutcomes :
                    LET error_msg == BotMsg(inv.chat, text, now)
                    IN  /\ Chat' = ChatAfterSave(Chat, error_msg, saved)
                        /\ ChatMessage' = ChatMessageAfterSave(ChatMessage, error_msg, saved)
                        /\ events' = events \o <<ReplyEv("error", None, TRUE),
                                                 SaveEv("error", error_msg, saved)>>
                        /\ inv' = [inv EXCEPT !.pc = "done"]
             ELSE /\ events' = events \o <<ReplyEv("error", None, FALSE)>>
                  /\ inv' = [inv EXCEPT !.pc = "raised"]
                  /\ UNCHANGED <<Chat, ChatMessage>>
    /\ UNCHANGED <<now, userMsgs, probe>>

\* ---------------------------------------------------------------------------
\* The bot: the platform delivers messages and commands, the handlers run
\* ---------------------------------------------------------------------------
\* the invocation has returned or an exception has left it: what is archived
\* from then on no step of the invocation reads, so the model follows the user
\* messages delivered before and while the command runs
Ended == inv.pc \in {"done", "raised"}

Next ==
    \/ Tick
    \/ /\ ~Ended
       /\ \E c \in Chats, t \in 1..now, outcome \in SaveOutcomes :
            HandleAllTextMessages(c, Writer, t, outcome)
    \/ \E p \in HistoryParts : HistoryStart(CommandChat, p)
    \/ HistoryAck
    \/ HistoryNoHistDelete
    \/ HistoryNoHistReply
    \/ HistoryDelete
    \/ HistorySend
    \/ HistoryErrDelete
    \/ HistoryErrReply
    \/ \E p \in QwenParts : QwenStart(CommandChat, p)
    \/ QwenUsage
    \/ QwenAck
    \/ QwenNoHistDelete
    \/ QwenNoHistReply
    \/ QwenDelete
    \/ QwenSend
    \/ QwenResend
    \/ QwenErrDelete
    \/ QwenErrReply

Spec == Init /\ [][Next]_vars

\* ---------------------------------------------------------------------------
\* The text functions on their own: call_cerebras_api's post-processing and
\* the answer post-processing of handle_qwen_command, applied to texts built
\* from the tags and markers of the code
\* ---------------------------------------------------------------------------
\* a call of one function: its input, and its result once it has returned
Call(fn, in) == [fn |-> fn, in |-> in, out |-> <<>>, returned |-> FALSE]

\* every text a \o x \o b \o y \o c
Compose(as, xs, bs, ys, cs) ==
    {a \o x \o b \o y \o c : a \in as, x \in xs, b \in bs, y \in ys, c \in cs}

\* "", " ", " r " and "Final text"
TagFillers ==
    {<<>>, <<32>>, <<32, 114, 32>>, <<70, 105, 110, 97, 108, 32, 116, 101, 120, 116>>}

Tags == {thinking_tags[k] : k \in 1..Len(thinking_tags)}

\* completion texts with no, one or two sentinel tags
CompletionTexts ==
    Compose(TagFillers, Tags \cup {<<>>}, TagFillers, Tags \cup {<<>>}, TagFillers)

Markers == {AnswerMarkers[k] : k \in 1..Len(AnswerMarkers)}

\* answers with no, one or two markers: "" or "x " before, "", " " or " 42 "
\* between, "" or " 42" after
AnswerTexts ==
    Compose({<<>>, <<120, 32>>}, Markers \cup {<<>>}, {<<>>, <<32>>, <<32, 52, 50, 32>>},
            Markers \cup {<<>>}, {<<>>, <<32, 52, 50>>})

\* how long the texts handed to escape_markdown are
MaxEscapeLen == 2

\* the characters of those texts: the special ones, the backslash and "a"
EscapeAlphabet == {escape_chars[k] : k \in 1..Len(escape_chars)} \cup {Backslash, 97}

\* every text of at most MaxEscapeLen characters
EscapeTexts == UNION {[1..n -> EscapeAlphabet] : n \in 0..MaxEscapeLen}

InitText ==
    /\ Chat = {}
    /\ ChatMessage = <<>>
    /\ now = 1
    /\ userMsgs = 0
    /\ inv = Idle
    /\ events = <<>>
    /\ probe \in {Call("call_cerebras_api", t) : t \in CompletionTexts}
                 \cup {Call("normalize", t) : t \in AnswerTexts}
                 \cup {Call("escape_markdown", t) : t \in EscapeTexts}

\* call_cerebras_api receives the completion text probe.in (lines 191-206)
ApplyFinalResponse ==
    /\ probe.fn = "call_cerebras_api"
    /\ ~probe.returned
    /\ probe' = [probe EXCEPT !.out = CallCerebrasApi(ApiAnswer(probe.in)), !.returned = TRUE]
    /\ UNCHANGED <<Chat, ChatMessage, now, userMsgs, inv, events>>

\* handle_qwen_command post-processes the answer probe.in (lines 420-489)
ApplyNormalizeAnswer ==
    /\ probe.fn = "normalize"
    /\ ~probe.returned
    /\ probe' = [probe EXCEPT !.out = NormalizeAnswer(probe.in), !.returned = TRUE]
    /\ UNCHANGED <<Chat, ChatMessage, now, userMsgs, inv, events>>

\* escape_markdown receives the text probe.in (lines 211-223)
ApplyEscapeMarkdown ==
    /\ probe.fn = "escape_markdown"
    /\ ~probe.returned
    /\ probe' = [probe EXCEPT !.out = EscapeMarkdown(probe.in), !.returned = TRUE]
    /\ UNCHANGED <<Chat, ChatMessage, now, userMsgs, inv, events>>

NextText == ApplyFinalResponse \/ ApplyNormalizeAnswer \/ ApplyEscapeMarkdown

SpecText == InitText /\ [][NextText]_vars

\* ---------------------------------------------------------------------------
\* The archive on its own: any messages are saved, any chat's history is
\* fetched with any limit
\* ---------------------------------------------------------------------------
\* how many save_message_to_db calls a run makes
MaxSaves == 3

\* limits the handlers can pass (1..500)
Limits == {1, 2, 3, DEFAULT_MESSAGE_COUNT, 500}

\* save_message_to_db(message) for a message of user u in chat c dated t
StoreSave(c, u, t, outcome) ==
    LET message == Msg(c, ChatTitle(c), u, None, UserText(u), t, FALSE)
    IN  /\ userMsgs < MaxSaves
        /\ userMsgs' = userMsgs + 1
        /\ Chat' = ChatAfterSave(Chat, message, outcome)
        /\ ChatMessage' = ChatMessageAfterSave(ChatMessage, message, outcome)
        /\ probe' = NoProbe
        /\ UNCHANGED <<now, inv, events>>

\* get_chat_history_from_db(c, limit) returns
StoreFetch(c, limit, queryRaises) ==
    /\ \E history \in GetChatHistoryFromDb(Chat, ChatMessage, c, limit, now, queryRaises) :
         probe' = [fn |-> "get_chat_history_from_db",
                   in |-> [chat_id |-> c, limit |-> limit, raises |-> queryRaises],
                   out |-> history, returned |-> TRUE]
    /\ UNCHANGED <<Chat, ChatMessage, now, userMsgs, inv, events>>

NextStore ==
    \/ \E c \in Chats, u \in Users, t \in Times, outcome \in SaveOutcomes :
         StoreSave(c, u, t, outcome)
    \/ \E c \in Chats, limit \in Limits, queryRaises \in BOOLEAN :
         StoreFetch(c, limit, queryRaises)

SpecStore == Init /\ [][NextStore]_vars

\* ---------------------------------------------------------------------------
\* The Chat table on its own: messages whose chat title and chat type vary,
\* with and without text, are saved, and histories are fetched
\* ---------------------------------------------------------------------------
\* message.chat.title and message.chat.type as the platform may report them
Titles == {"team", "family"}
Kinds == {"group", "supergroup"}

\* a message of the writer in chat c, as the platform reports the chat
ChatMsg(c, title, kind, text) ==
    [Msg(c, title, Writer, None, text, 1, FALSE) EXCEPT !.chat_type = kind]

\* save_message_to_db(message) returns; the call is remembered
ChatSave(c, title, kind, text, outcome) ==
    LET message == ChatMsg(c, title, kind, text)
    IN  /\ userMsgs < MaxSaves
        /\ userMsgs' = userMsgs + 1
        /\ Chat' = ChatAfterSave(Chat, message, outcome)
        /\ ChatMessage' = ChatMessageAfterSave(ChatMessage, message, outcome)
        /\ probe' = [fn |-> "save_message_to_db", in |-> message, out |-> <<outcome>>,
                     returned |-> TRUE]
        /\ UNCHANGED <<now, inv, events>>

NextChat ==
    \/ \E c \in Chats, title \in Titles, kind \in Kinds, text \in {<<>>, UserText(Writer)},
          outcome \in SaveOutcomes :
         ChatSave(c, title, kind, text, outcome)
    \/ \E c \in Chats, limit \in Limits, queryRaises \in BOOLEAN :
         StoreFetch(c, limit, queryRaises)

SpecChat == Init /\ [][NextChat]_vars


\* ---------------------------------------------------------------------------
\* The archive as found at start-up: chat_history.db (line 38) outlives the
\* process and create_tables (line 63) keeps its rows, so the table may hold
\* rows whose date column is any string. Histories are fetched from it.
\* ---------------------------------------------------------------------------
MaxStoredRows == 3

\* the date column of a row of the file: an ISO date or another string
StoredDates == Times \cup BadDates

\* a row of the file
StoredRow(c, date) ==
    [chat |-> c, first_name |-> Writer, last_name |-> None, text |-> UserText(Writer),
     date |-> date]

StoredRows == {StoredRow(c, date) : c \in Chats, date \in StoredDates}

\* the tables of the file
StoredTables == UNION {[1..n -> StoredRows] : n \in 0..MaxStoredRows}

\* the latest value of the clock: datetime.now() when the histories are fetched
Latest == CHOOSE t \in Times : \A u \in Times : u <= t

\* initialize_db (lines 59-64) on an existing file: every row refers to a Chat
\* record (the foreign key of line 50)
InitDates ==
    /\ ChatMessage \in StoredTables
    /\ Chat = {[chat_id |-> c, chat_title |-> ChatTitle(c), chat_type |-> ChatType(c)] :
                 c \in {ChatMessage[i].chat : i \in 1..Len(ChatMessage)}}
    /\ now = Latest
    /\ userMsgs = 0
    /\ inv = Idle
    /\ events = <<>>
    /\ probe = NoProbe

NextDates ==
    \E c \in Chats, limit \in Limits, queryRaises \in BOOLEAN : StoreFetch(c, limit, queryRaises)

SpecDates == InitDates /\ [][NextDates]_vars
\* ---------------------------------------------------------------------------
\* Properties of the archive (SpecStore)
\* ---------------------------------------------------------------------------
Min(a, b) == IF a <= b THEN a ELSE b

\* a fetch has returned without the query raising
Fetched == probe.fn = "get_chat_history_from_db" /\ ~probe.in.raises

\* the rows archived for the fetched chat
FetchedRows == {i \in 1..Len(ChatMessage) : ChatMessage[i].chat = probe.in.chat_id}

\* how many entries of the returned list satisfy P, and how many archived rows
EntriesWith(P(_)) == Cardinality({i \in 1..Len(probe.out) : P(probe.out[i])})
RowsWith(P(_)) == Cardinality({i \in FetchedRows : P(ChatMessage[i])})

\* C1: when chat X has at least one archived message, get_chat_history(X,
\* limit) returns min(limit, count) entries, they are the most recent of the
\* chat's archived messages, and their timestamps never decrease along the
\* list. "The most recent": for every date d the list holds as many entries
\* dated after d as the chat has rows dated after d, up to the length of the
\* list; and every entry is a row of the chat, no row taken twice.
C1_RecentWindowOldestFirst ==
    (Fetched /\ FetchedRows # {}) =>
        /\ Len(probe.out) = Min(probe.in.limit, Cardinality(FetchedRows))
        /\ \A i \in 1..(Len(probe.out) - 1) : probe.out[i].date <= probe.out[i + 1].date
        /\ \A d \in Times :
             LET After(r) == r.date > d
             IN  EntriesWith(After) = Min(Len(probe.out), RowsWith(After))
        /\ \A i \in 1..Len(probe.out) :
             LET e == probe.out[i]
                 Same(x) == x = e
                 Shown(r) == e.sender_name[1] = r.first_name /\ e.text = r.text
                             /\ e.date = r.date
             IN  EntriesWith(Same) <= RowsWith(Shown)

\* C1 witness: three messages were archived for one chat, the newest first,
\* and a fetch with limit 2 returned the two newest, older one first.
C1_Witness ==
    /\ Fetched
    /\ probe.in.limit = 2
    /\ Cardinality(FetchedRows) = 3
    /\ \E i, j \in FetchedRows : i < j /\ ChatMessage[i].date > ChatMessage[j].date
    /\ Len(probe.out) = 2
    /\ probe.out[1].date < probe.out[2].date

\* ---------------------------------------------------------------------------
\* Properties of the Chat table and of the stored messages (SpecChat)
\* ---------------------------------------------------------------------------
\* the last operation was a save_message_to_db call for a message with text
Saved == probe.fn = "save_message_to_db" /\ probe.in.text # <<>>

\* at most one Chat record per chat identifier
OneRecordPerChat == \A r1, r2 \in Chat : r1.chat_id = r2.chat_id => r1 = r2

\* the step leaves the chat_type of every Chat record as it is
KindKept == \A r \in Chat : \E r2 \in Chat' : r2.chat_id = r.chat_id /\ r2.chat_type = r.chat_type

\* the step stores a message of chat c
Stores(c) ==
    /\ Len(ChatMessage') = Len(ChatMessage) + 1
    /\ ChatMessage'[Len(ChatMessage')].chat = c

\* C14 (as the specification states it): at most one Chat record per chat
\* identifier; the chat_type of a record never changes; and the title of a
\* record is the title carried by the most recently saved message of its
\* chat: a save that stores a message leaves the record with the message's
\* title, and a step that stores no message of the chat leaves the title of a
\* chat that has stored messages as it is.
C14_TitleOfLastStoredMessage ==
    /\ [](OneRecordPerChat
          /\ ((Saved /\ probe.out = <<"ok">>) =>
                \E r \in Chat : r.chat_id = probe.in.chat_id
                                /\ r.chat_title = probe.in.chat_title))
    /\ [][KindKept
          /\ \A r \in Chat :
               (RowsOf(ChatMessage, r.chat_id) # {} /\ ~Stores(r.chat_id)) => r \in Chat']_vars

\* C14 (amended): at most one Chat record per chat identifier; the chat_type
\* of a record never changes; and the title of a record is the title carried
\* by the most recent message of its chat for which save_message_to_db wrote
\* the Chat record, whether or not the message itself could then be stored:
\* such a call leaves the record with the message's title, and every other
\* step leaves the record as it is.
C14_TitleOfLastWrittenChat ==
    /\ [](OneRecordPerChat
          /\ ((Saved /\ probe.out \in {<<"ok">>, <<"message">>}) =>
                \E r \in Chat : r.chat_id = probe.in.chat_id
                                /\ r.chat_title = probe.in.chat_title))
    /\ [][KindKept
          /\ \A r \in Chat :
               ~(/\ probe'.fn = "save_message_to_db"
                 /\ probe'.in.text # <<>>
                 /\ probe'.in.chat_id = r.chat_id
                 /\ probe'.out \in {<<"ok">>, <<"message">>}
                 /\ userMsgs' # userMsgs) => r \in Chat']_vars

\* C14 witness: a chat recorded as a group titled "team" got a message that
\* reports it as a supergroup titled "family": the title followed, the type
\* stayed.
C14_Witness ==
    /\ Saved
    /\ probe.out = <<"ok">>
    /\ probe.in.chat_title = "family"
    /\ probe.in.chat_type = "supergroup"
    /\ Cardinality(RowsOf(ChatMessage, probe.in.chat_id)) = 2
    /\ \E r \in Chat : /\ r.chat_id = probe.in.chat_id
                       /\ r.chat_title = "family"
                       /\ r.chat_type = "group"

\* the step keeps every stored message, in its place and unchanged
MessagesKept ==
    /\ Len(ChatMessage') >= Len(ChatMessage)
    /\ SubSeq(ChatMessage', 1, Len(ChatMessage)) = ChatMessage

\* the step is a save_message_to_db call for a message without text
SavesNoText ==
    /\ userMsgs' # userMsgs
    /\ probe'.fn = "save_message_to_db"
    /\ probe'.in.text = <<>>

\* C15: every stored message has a text that is not empty; a
\* save_message_to_db call for a message without text stores nothing and
\* creates no Chat record; and no step, a save or a fetch, changes or removes
\* a message already stored.
C15_AppendOnlyNonEmptyText ==
    /\ [](\A i \in 1..Len(ChatMessage) : ChatMessage[i].text # <<>>)
    /\ [][MessagesKept
          /\ (SavesNoText => Chat' = Chat /\ ChatMessage' = ChatMessage)]_vars

\* C15 witness: a message without text of a chat not yet recorded was handed
\* to save_message_to_db after another chat's message was stored; the stored
\* message is still the only one, and the chat has no record.
C15_Witness ==
    /\ probe.fn = "save_message_to_db"
    /\ probe.in.text = <<>>
    /\ probe.out = <<"ok">>
    /\ Len(ChatMessage) = 1
    /\ ChatMessage[1].chat # probe.in.chat_id
    /\ \A r \in Chat : r.chat_id # probe.in.chat_id

\* the same for the steps of the handlers
C15_HandlersKeepMessages == [][MessagesKept]_vars


\* ---------------------------------------------------------------------------
\* Unparseable dates (SpecDates)
\* ---------------------------------------------------------------------------
\* the entry a row gives: the sender, the text, and the date or, for a date
\* that cannot be parsed, the current time
ShownAs(e, r) ==
    /\ e.sender_name[1] = r.first_name
    /\ e.text = r.text
    /\ e.date = IF r.date \in Times THEN r.date ELSE now

\* a fetch has returned for a chat with a row whose date cannot be parsed
FetchedBadDate == Fetched /\ \E i \in FetchedRows : ChatMessage[i].date \notin Times

\* the call returned min(limit, count) entries, one for each of as many rows of
\* the chat, the date of an unparseable row replaced by the current time
WindowKept ==
    /\ Len(probe.out) = Min(probe.in.limit, Cardinality(FetchedRows))
    /\ \E f \in [1..Len(probe.out) -> FetchedRows] :
         /\ \A i, j \in 1..Len(probe.out) : f[i] = f[j] => i = j
         /\ \A i \in 1..Len(probe.out) : ShownAs(probe.out[i], ChatMessage[f[i]])

\* the timestamps of the returned list never decrease
Chronological == \A i \in 1..(Len(probe.out) - 1) : probe.out[i].date <= probe.out[i + 1].date

\* a row with an unparseable date does not make the fetch fail or lose rows
BadDateKeepsWindow == FetchedBadDate => WindowKept

\* C21: when a stored row's date is an unparseable string,
\* get_chat_history_from_db does not fail: it returns every selected row
\* (window size unchanged) with that row's timestamp replaced by the current
\* time, and the returned window is in chronological order by the timestamps
\* it carries.
C21_BadDateKeepsWindowAndOrder == FetchedBadDate => (WindowKept /\ Chronological)
\* ---------------------------------------------------------------------------
\* Properties of the text functions (SpecText)
\* ---------------------------------------------------------------------------
\* text holds tag at position i and nowhere before
FirstAt(text, tag, i) ==
    /\ i + Len(tag) - 1 <= Len(text)
    /\ SubSeq(text, i, i + Len(tag) - 1) = tag
    /\ \A j \in 1..(i - 1) : SubSeq(text, j, j + Len(tag) - 1) # tag

\* text holds tag somewhere
Holds(text, tag) == \E i \in 1..Len(text) : FirstAt(text, tag, i)

\* result is what follows the first occurrence of tag in text, trimmed
TrimmedRest(text, tag, result) ==
    \E i \in 1..Len(text) :
        /\ FirstAt(text, tag, i)
        /\ result = Strip(SubSeq(text, i + Len(tag), Len(text)))

\* "</think>", and " r </think>Final text"
ThinkTag == thinking_tags[1]
ThinkExample == <<32, 114, 32>> \o ThinkTag \o <<70, 105, 110, 97, 108, 32, 116, 101, 120, 116>>

\* C9: the completion text is trimmed; then the first of "</think>",
\* "</reasoning>", "<|im_end|>" (checked in that order) that the trimmed text
\* holds decides the result, which is the trimmed remainder after that tag's
\* first occurrence; only that one tag is processed; a text with none of the
\* tags is returned trimmed; "...</think>Final text" gives "Final text".
C9_FirstTagInListOrderSplits ==
    (probe.fn = "call_cerebras_api" /\ probe.returned) =>
        LET text == Strip(probe.in)
            found == {k \in 1..Len(thinking_tags) : Holds(text, thinking_tags[k])}
        IN  /\ found = {} => probe.out = text
            /\ found # {} =>
                 LET k == CHOOSE n \in found : \A m \in found : n <= m
                 IN  TrimmedRest(text, thinking_tags[k], probe.out)
            /\ probe.in = ThinkExample =>
                 probe.out = <<70, 105, 110, 97, 108, 32, 116, 101, 120, 116>>

\* C9 witness: a text holding "</reasoning>" before "</think>" was processed
\* and the result is what follows "</think>", the other tag no longer in it.
C9_Witness ==
    /\ probe.fn = "call_cerebras_api"
    /\ probe.returned
    /\ probe.in = <<32, 114, 32>> \o thinking_tags[2] \o <<32>> \o thinking_tags[1]
                  \o <<70, 105, 110, 97, 108, 32, 116, 101, 120, 116>>
    /\ probe.out = <<70, 105, 110, 97, 108, 32, 116, 101, 120, 116>>

\* "### Итог: 42"
ItogExample == <<35, 35, 35, 32, 1048, 1090, 1086, 1075, 58, 32, 52, 50>>

\* C10: a raw answer is tested against the markers in list order; the first
\* marker of the list the answer holds wins, wherever later markers stand in
\* the text, and the result is the trimmed remainder after that marker's first
\* occurrence; "### Итог: 42" gives "42"; an answer with no marker is
\* returned as it is.
C10_FirstMarkerInListOrderWins ==
    (probe.fn = "normalize" /\ probe.returned) =>
        LET found == {k \in 1..Len(AnswerMarkers) : Holds(probe.in, AnswerMarkers[k])}
        IN  /\ found = {} => probe.out = probe.in
            /\ found # {} =>
                 LET k == CHOOSE n \in found : \A m \in found : n <= m
                 IN  TrimmedRest(probe.in, AnswerMarkers[k], probe.out)
            /\ probe.in = ItogExample => probe.out = <<52, 50>>

\* C10 witness: "### Итог: 42" was normalised to "42", although "###" stands
\* earlier in the text than "Итог:".
C10_Witness ==
    /\ probe.fn = "normalize"
    /\ probe.returned
    /\ probe.in = ItogExample
    /\ probe.out = <<52, 50>>

\* the characters escape_markdown must escape: _ * [ ] ( ) ~ ` > # + - = | { } . !
SpecialChars == {95, 42, 91, 93, 40, 41, 126, 96, 62, 35, 43, 45, 61, 124, 123, 125, 46, 33}

\* what one character of the input becomes
Escaped(ch) == IF ch \in SpecialChars \cup {92} THEN <<92, ch>> ELSE <<ch>>

\* the input, character by character
RECURSIVE EscapedText(_)
EscapedText(text) ==
    IF text = <<>> THEN <<>> ELSE Escaped(Head(text)) \o EscapedText(Tail(text))

\* C11: escape_markdown puts exactly one backslash before every special
\* character of its input and doubles every backslash of the input; it adds,
\* removes and reorders nothing else, and a backslash it inserted is not
\* escaped again: the output is the input with each character replaced, in
\* place, by its escaped form.
C11_EachSpecialEscapedOnce ==
    (probe.fn = "escape_markdown" /\ probe.returned) =>
        /\ probe.out = EscapedText(probe.in)
        /\ Len(probe.out) = Len(probe.in)
             + Cardinality({i \in 1..Len(probe.in) : probe.in[i] \in SpecialChars \cup {92}})

\* C11 witness: the text "\_" was escaped to "\\\_".
C11_Witness ==
    /\ probe.fn = "escape_markdown"
    /\ probe.returned
    /\ probe.in = <<92, 95>>
    /\ probe.out = <<92, 92, 92, 95>>

\* the markers the chain has both without and with a colon after them
ColonPairs == {m \in Markers : m \o <<58>> \in Markers}

\* C20 (as the specification states it): for every marker the chain has both
\* with and without a trailing colon, the answer "<marker>: 42" is normalised
\* to "42": the colon goes with the marker.
C20_ColonGoesWithMarker ==
    (/\ probe.fn = "normalize"
     /\ probe.returned
     /\ \E m \in ColonPairs : probe.in = m \o <<58>> \o <<32, 52, 50>>)
    => probe.out = <<52, 50>>

\* ---------------------------------------------------------------------------
\* Properties of the command handlers (Spec)
\* ---------------------------------------------------------------------------
\* positions in events of the events of one sort, kind and outcome
EventsOf(e, kinds, outs) ==
    {i \in 1..Len(events) : events[i].e = e /\ events[i].kind \in kinds /\ events[i].out \in outs}

Outs == {"ok", "raised", "skipped", "chat", "message", "account", "page"}
ResultKinds == {"inline", "link", "truncated"}

\* no collaborator of the invocation failed
NoFailure == \A i \in 1..Len(events) : events[i].out = "ok"

\* the rows of chat c that users wrote
UserRows(c) == {i \in RowsOf(ChatMessage, c) : ChatMessage[i].first_name # "bot"}

\* C2 (as the specification states it): when the archive holds no message of
\* the chat at the moment /history is invoked, the invocation replies with the
\* no-history notice and requests no completion. Only the invocation itself
\* adds rows of the bot, so a chat without user rows was empty at the start.
C2_EmptyArchiveMakesNoCompletionCall ==
    (inv.cmd = "history" /\ UserRows(inv.chat) = {} /\ NoFailure) =>
        /\ EventsOf("api", {"completion"}, Outs) = {}
        /\ inv.pc = "done" => EventsOf("reply", {"nohistory"}, {"ok"}) # {}

\* an optional minus sign and decimal digits
IsCount(token) ==
    LET digits == IF token # <<>> /\ Head(token) = 45 THEN Tail(token) ELSE token
    IN  digits # <<>> /\ \A i \in 1..Len(digits) : digits[i] \in 48..57

CountOf(token) == IF Head(token) = 45 THEN 0 - IntOf(Tail(token)) ELSE IntOf(token)

\* the count argument of the command, <<>> when the user gave none:
\* "/history N" and "/qwen N question"
SuppliedCount ==
    IF inv.cmd = "history" /\ Len(inv.parts) > 1 THEN inv.parts[2]
    ELSE IF inv.cmd = "qwen" /\ Len(inv.parts) = 3 THEN inv.parts[2]
    ELSE <<>>

\* C3: a count the user supplied that is <= 0 or > 500 is replaced by exactly
\* 100 and a count within 1..500 is used unchanged, for /history and /qwen
\* alike; so the limit that get_chat_history receives is within 1..500.
C3_CountClampedToDefault ==
    /\ (inv.pc # "idle" /\ IsCount(SuppliedCount)) =>
          LET n == CountOf(SuppliedCount)
          IN  inv.num_messages = IF n <= 0 \/ n > 500 THEN 100 ELSE n
    /\ EventsOf("fetch", {"history"}, Outs) # {} => inv.num_messages \in 1..500

\* C3 witness: "/qwen 501 why" fetched the history with the limit 100.
C3_Witness ==
    /\ inv.cmd = "qwen"
    /\ inv.parts = <<CmdQwen, <<53, 48, 49>>, Question>>
    /\ EventsOf("fetch", {"history"}, {"ok"}) # {}
    /\ inv.num_messages = 100

\* a call of send_long_message has reached its first reply
Sending == inv.send.stage # "none"

\* C4: send_long_message sends its text unchanged, as one message with the
\* requested markup mode and without contacting the publishing service,
\* exactly when the text has at most 4096 characters; a text of 4097 or more
\* characters goes to the overflow path, which contacts the service.
C4_InlineUpToLimit ==
    Sending =>
        /\ inv.send.stage = "inline" <=> Len(inv.answer) <= 4096
        /\ inv.send.stage = "inline" =>
             /\ inv.send.text = inv.answer
             /\ inv.send.mode = inv.send.parse_mode
             /\ EventsOf("telegraph", {"publish"}, Outs) = {}
        /\ Len(inv.answer) >= 4097 => EventsOf("telegraph", {"publish"}, Outs) # {}
        /\ inv.send.parse_mode \in
             IF inv.cmd = "history" THEN {MARKDOWN} ELSE {MARKDOWN_V2, None}

\* C4 witness: an answer of exactly 4096 characters was delivered inline.
C4_Witness ==
    /\ Len(inv.answer) = 4096
    /\ inv.send.stage = "inline"
    /\ EventsOf("reply", {"inline"}, {"ok"}) # {}

\* the publishing of the current send_long_message call, and whether its link
\* reply failed
LastPublish ==
    LET all == EventsOf("telegraph", {"publish"}, Outs)
    IN  IF all = {} THEN 0 ELSE CHOOSE i \in all : \A j \in all : j <= i
Publishing == IF LastPublish = 0 THEN "none" ELSE events[LastPublish].out
LinkReplyFailed == \E i \in EventsOf("reply", {"link"}, {"raised"}) : i > LastPublish

\* no invocation delivers both the link and the truncated text
NeverBoth ==
    ~(EventsOf("reply", {"link"}, {"ok"}) # {} /\ EventsOf("reply", {"truncated"}, {"ok"}) # {})

\* C5 (as the specification states it): for a text over 4096 characters
\* send_long_message sends only a link message without markup when the
\* publishing succeeds, and the first 4096 characters with the requested
\* markup mode when account creation or publishing fails; never both; no
\* inline text over 4096 characters.
C5_LinkWheneverPublished ==
    (Sending /\ Len(inv.answer) > 4096) =>
        /\ Publishing = "ok" => inv.send.stage = "link" /\ inv.send.mode = None
        /\ Publishing \in {"account", "page"} =>
             /\ inv.send.stage = "truncated"
             /\ inv.send.text = SubSeq(inv.answer, 1, 4096)
             /\ inv.send.mode = inv.send.parse_mode
        /\ NeverBoth
        /\ inv.send.stage # "link" => Len(inv.send.text) <= 4096

\* C5 (amended): for a text over 4096 characters send_long_message sends only
\* the link message, without markup, when the publishing succeeds and the
\* link reply itself does not fail; when account creation, publishing or the
\* link reply fails it sends the first 4096 characters with the requested
\* markup mode; an invocation never delivers both; no inline text is over
\* 4096 characters.
C5_LinkOrTruncated ==
    (Sending /\ Len(inv.answer) > 4096) =>
        /\ inv.send.stage \in {"link", "truncated"}
        /\ inv.send.stage = "link" <=> (Publishing = "ok" /\ ~LinkReplyFailed)
        /\ inv.send.stage = "link" =>
             inv.send.text = LinkPre \o PublishedUrl /\ inv.send.mode = None
        /\ inv.send.stage = "truncated" =>
             /\ inv.send.text = SubSeq(inv.answer, 1, 4096)
             /\ inv.send.mode = inv.send.parse_mode
        /\ NeverBoth
        /\ inv.send.stage # "link" => Len(inv.send.text) <= 4096

\* C5 witness: the document was published, the link reply failed, and the
\* first 4096 characters were delivered.
C5_Witness ==
    /\ Len(inv.answer) > 4096
    /\ Publishing = "ok"
    /\ LinkReplyFailed
    /\ inv.send.stage = "truncated"
    /\ EventsOf("reply", {"truncated"}, {"ok"}) # {}

\* C6 (as the specification states it): in every command, when the send of
\* the result with a markup mode fails, the result is sent again without
\* markup: once such a send has failed, send_long_message has been called
\* with no markup mode.
C6_FailedMarkupSendRetriedPlain ==
    (\E i \in EventsOf("reply", {"inline", "truncated"}, {"raised"}) :
        events[i].mode \in {MARKDOWN, MARKDOWN_V2})
    => (Sending /\ inv.send.parse_mode = None)

\* C7 (as the specification states it): every reply that ends an invocation
\* is handed to save_message_to_db right after it is sent.
C7_TerminalReplyArchived ==
    inv.pc = "done" => events[Len(events)].e = "save"

\* the completion request of the invocation failed
ApiFailed == EventsOf("api", {"completion"}, {"raised"}) # {}
ApiAt == CHOOSE i \in EventsOf("api", {"completion"}, Outs) : TRUE

\* C8: when the completion request fails, call_cerebras_api returns the fixed
\* apology and raises nothing, and the handler goes on as for an answer: it
\* deletes the acknowledgment, sends the apology through send_long_message
\* with the command's markup mode, and archives the sent message.
C8_ApiFailureYieldsApology ==
    ApiFailed =>
        /\ inv.answer = Apology
        /\ Len(events) = ApiAt => inv.pc \in {"h_delete", "q_delete"} /\ inv.error = None
        /\ Len(events) > ApiAt => events[ApiAt + 1].e = "delete"
        /\ (Len(events) > ApiAt /\ events[ApiAt + 1].out = "ok") =>
             /\ inv.send.stage = "inline"
             /\ inv.send.text = Apology
        /\ (Len(events) > ApiAt + 1 /\ events[ApiAt + 1].out = "ok") =>
             /\ events[ApiAt + 2].e = "reply"
             /\ events[ApiAt + 2].kind = "inline"
             /\ events[ApiAt + 2].mode = IF inv.cmd = "history" THEN MARKDOWN ELSE MARKDOWN_V2
        /\ (Len(events) > ApiAt + 1 /\ events[ApiAt + 1].out = "ok"
              /\ events[ApiAt + 2].out = "ok") =>
             /\ Len(events) = ApiAt + 3
             /\ events[ApiAt + 3] = Ev("save", "result", None, events[ApiAt + 3].out)
             /\ inv.pc = "done"
             /\ events[ApiAt + 3].out = "ok" =>
                  \E i \in RowsOf(ChatMessage, inv.chat) :
                     ChatMessage[i].first_name = "bot" /\ ChatMessage[i].text = Apology

\* C8 witness: the completion request of a /qwen failed, and the apology was
\* sent and archived.
C8_Witness ==
    /\ ApiFailed
    /\ inv.cmd = "qwen"
    /\ inv.pc = "done"
    /\ Len(events) = ApiAt + 3
    /\ events[ApiAt + 2] = ReplyEv("inline", MARKDOWN_V2, TRUE)
    /\ events[ApiAt + 3].out = "ok"
    /\ \E i \in RowsOf(ChatMessage, inv.chat) : ChatMessage[i].text = Apology

\* a /qwen without a question: nothing follows the command, or the question
\* the handler extracts is empty
NoQuestion == inv.cmd = "qwen" /\ (Len(inv.parts) = 1 \/ QwenQuestion(inv.parts) = <<>>)

\* C12: a /qwen with no argument after the command, or with an empty
\* question, sends the usage hint as its first reply and stops when the hint
\* is delivered: it sends no working acknowledgment, fetches no history and
\* requests no completion.
C12_NoQuestionOnlyUsageHint ==
    NoQuestion =>
        /\ EventsOf("reply", {"ack"}, Outs) = {}
        /\ EventsOf("fetch", {"history"}, Outs) = {}
        /\ EventsOf("api", {"completion"}, Outs) = {}
        /\ EventsOf("delete", {"ack"}, Outs) = {}
        /\ inv.processing_msg = NoMessage
        /\ events = <<>> => inv.pc = "q_usage"
        /\ events # <<>> => events[1].e = "reply" /\ events[1].kind = "usage"
        /\ (events # <<>> /\ events[1].out = "ok") => inv.pc = "done" /\ Len(events) = 1

\* C12 witness: "/qwen" alone got the usage hint and the handler returned.
C12_Witness ==
    /\ inv.cmd = "qwen"
    /\ inv.parts = <<CmdQwen>>
    /\ inv.pc = "done"
    /\ events = <<ReplyEv("usage", None, TRUE)>>

\* the events before the i-th in which a platform call raised
RaisedBefore(i) ==
    {j \in 1..(i - 1) : events[j].e \in {"reply", "delete"} /\ events[j].out = "raised"}

\* C13 (as the specification states it): a failed delete of the working
\* acknowledgment is swallowed: it does not leave the handler as an exception,
\* and when nothing had failed before it the handler stays on its way to the
\* reply it was about to send instead of entering an except clause.
C13_FailedDeleteSwallowed ==
    (events # <<>> /\ events[Len(events)] = DeleteEv(FALSE)) =>
        /\ inv.pc # "raised"
        /\ RaisedBefore(Len(events)) = {} => inv.error = None

\* w is a window of the rows `ids` of msgTable for the limit: it has
\* min(limit, number of rows) entries, dated in non-decreasing order, each the
\* sender, text and date of a row, no row taken more often than it is there,
\* and for every date as many entries newer than it as there are such rows,
\* up to the length of w
IsRecentWindow(w, msgTable, ids, limit) ==
    /\ Len(w) = Min(limit, Cardinality(ids))
    /\ \A i \in 1..(Len(w) - 1) : w[i].date <= w[i + 1].date
    /\ \A i \in 1..Len(w) :
         Cardinality({j \in 1..Len(w) : w[j] = w[i]})
           <= Cardinality({j \in ids : /\ w[i].sender_name[1] = msgTable[j].first_name
                                       /\ w[i].text = msgTable[j].text
                                       /\ w[i].date = msgTable[j].date})
    /\ \A d \in Times :
         Cardinality({j \in 1..Len(w) : w[j].date > d})
           = Min(Len(w), Cardinality({j \in ids : msgTable[j].date > d}))

\* the step fetches the history and the query does not raise
FetchStep ==
    \E i \in (Len(events) + 1)..Len(events') :
        events'[i].e = "fetch" /\ events'[i].out = "ok"

C17_NoExceptionLeavesHandler == inv.pc # "raised"

\* escape_markdown(text); a text without a character to escape is its own
\* escaped form
StrictEscaped(text) ==
    IF \A i \in 1..Len(text) : text[i] \notin SpecialChars \cup {92} THEN text
    ELSE EscapeMarkdown(text)

\* C18 (as the specification states it): the text /history hands to the
\* platform in its first send is escape_markdown of the completion result;
\* the text /qwen hands over is the answer itself. Stated for results that
\* fit one message.
C18_HistorySendsEscapedText ==
    (inv.send.stage = "inline" /\ inv.send.parse_mode # None) =>
        inv.send.text = IF inv.cmd = "history" THEN StrictEscaped(inv.answer) ELSE inv.answer

\* the events of a /history after its completion request
HistoryApiAt == CHOOSE i \in EventsOf("api", {"completion"}, Outs) : TRUE
ResultReplies == EventsOf("reply", ResultKinds, Outs)
ResultSaves == EventsOf("save", {"result"}, Outs)

\* C19: in a /history that requests a completion the events come in this
\* order: the acknowledgment is sent, the history is fetched, the completion
\* is requested, the acknowledgment is deleted, the result is sent, the sent
\* result is archived. No result is sent before the delete was attempted (and
\* none unless it succeeded), and the result is archived only right after a
\* reply that delivered it.
C19_HistoryOrder ==
    (inv.cmd = "history" /\ EventsOf("api", {"completion"}, Outs) # {}) =>
        /\ events[1] = ReplyEv("ack", None, TRUE)
        /\ EventsOf("fetch", {"history"}, Outs) = {HistoryApiAt - 1}
        /\ EventsOf("api", {"completion"}, Outs) = {HistoryApiAt}
        /\ \A i \in EventsOf("delete", {"ack"}, Outs) : i > HistoryApiAt
        /\ Len(events) > HistoryApiAt => events[HistoryApiAt + 1].e = "delete"
        /\ Len(events) = HistoryApiAt => ~Sending
        /\ \A i \in ResultReplies :
             i > HistoryApiAt + 1 /\ events[HistoryApiAt + 1] = DeleteEv(TRUE)
        /\ \A i \in ResultSaves :
             /\ i - 1 \in ResultReplies
             /\ events[i - 1].out = "ok"
             /\ i = Len(events)

\* C19 witness: a /history went through all six events.
C19_Witness ==
    /\ inv.cmd = "history"
    /\ inv.pc = "done"
    /\ Len(events) = 7
    /\ events[1] = ReplyEv("ack", None, TRUE)
    /\ events[3] = FetchEv(FALSE)
    /\ events[4].e = "api"
    /\ events[5] = DeleteEv(TRUE)
    /\ events[6] = ReplyEv("inline", MARKDOWN, TRUE)
    /\ events[7].e = "save" /\ events[7].kind = "result" /\ events[7].out = "ok"


\* the working acknowledgment of the invocation (lines 318 and 396)
OwnAck ==
    IF inv.cmd = "history" THEN AckHistory(inv.num_messages) ELSE AckQwen(inv.num_messages)

\* the window the invocation fetched holds no message of the bot and nowhere
\* the text of the invocation's acknowledgment: the model follows one
\* invocation, so every other archived row is a message a user wrote before
\* the invocation or meanwhile
WindowWithoutOwnAck ==
    \A i \in 1..Len(inv.chat_history) :
        /\ inv.chat_history[i].text # OwnAck
        /\ inv.chat_history[i].sender_name # <<"bot">>

\* the window of a /qwen never holds the acknowledgment of that /qwen
QwenWindowWithoutOwnAck == inv.cmd = "qwen" => WindowWithoutOwnAck

\* C22: the history window that a /history or /qwen invocation formats into
\* its prompt never contains that invocation's own working acknowledgment; it
\* contains only messages archived before the invocation started or archived
\* by other handlers meanwhile.
C22_WindowWithoutOwnAck == inv.cmd \in {"history", "qwen"} => WindowWithoutOwnAck

\* the completion requests of the invocation and the rows of the chat that
\* hold a message the bot sent after its acknowledgment
CompletionCalls == EventsOf("api", {"completion"}, Outs)
ArchivedReplies ==
    {i \in RowsOf(ChatMessage, inv.chat) :
       ChatMessage[i].first_name = "bot" /\ ChatMessage[i].text # OwnAck}

\* C23: each /history or /qwen invocation makes at most one completion call
\* and archives at most one result message, on every path including the
\* plain-text retry of /qwen and the overflow fallbacks of send_long_message:
\* save_message_to_db is called for at most one result, and the chat holds at
\* most one row of the bot besides the acknowledgment.
C23_OneCompletionOneResult ==
    inv.cmd \in {"history", "qwen"} =>
        /\ Cardinality(CompletionCalls) <= 1
        /\ Cardinality(ResultSaves) <= 1
        /\ Cardinality(ArchivedReplies) <= 1

\* C23 witness: a /qwen whose answer is longer than the limit was published
\* twice: the first send failed with the markup, the retry without markup
\* could not deliver the link and delivered the truncated text, which was
\* archived; one completion was requested.
C23_Witness ==
    /\ inv.cmd = "qwen"
    /\ inv.pc = "done"
    /\ Cardinality(CompletionCalls) = 1
    /\ Cardinality(EventsOf("telegraph", {"publish"}, Outs)) = 2
    /\ \E i \in EventsOf("reply", ResultKinds, {"raised"}) : events[i].mode = MARKDOWN_V2
    /\ \E i \in EventsOf("reply", {"link"}, {"raised"}) :
         \E j \in EventsOf("reply", {"truncated"}, {"ok"}) : i < j /\ events[j].mode = None
    /\ EventsOf("save", {"result"}, {"ok"}) # {}
    /\ Cardinality(ArchivedReplies) = 1
=============================================================================
